---- MODULE Spec2Model ----
(***************************************************************************)
(* Model of the AI-provider adapter layer of english-speak-brain-backend:  *)
(* response normalizers, structured-output recovery, request validators,   *)
(* provider error mapping and the HTTP error handler.                      *)
(*                                                                         *)
(* Texts are sequences of one-character strings, so that trimming, fence   *)
(* stripping, line splitting, JSON serialisation and JSON parsing are      *)
(* computed character by character as the JavaScript code computes them.   *)
(***************************************************************************)
EXTENDS Integers, Sequences, FiniteSets, TLC

VARIABLES
    recipe,      \* SpecRecovery: how the model's reply was put together
    modelReply,  \* SpecRecovery: how the provider call of generateText ends
    recovered,   \* SpecRecovery: the outcome of generateResponseSuggestions
    rpc,         \* SpecRecovery: "ready" before, "done" after the recovery
    response,    \* SpecExtract: a Responses-API response object
    extracted,   \* SpecExtract: the outcomes of the three normalizers
    xpc,         \* SpecExtract: "ready" before, "done" after the extraction
    call,        \* SpecService: the service function called, its arguments
                 \*              and the outcome of its provider call
    result,      \* SpecService: what the service function returns or throws
    spc,         \* SpecService: "ready" before, "done" after the call
    pc,          \* Spec: where the request in hand is
    req,         \* Spec: the request in hand
    prov,        \* Spec: how the provider call of the request ended
    outcome,     \* Spec: what controller and service have returned or thrown
    reply,       \* Spec: the HTTP response sent
    calls,       \* Spec: provider calls made for the request in hand
    errorLogs,   \* Spec: logger.error entries written for the request in hand
    responses,   \* Spec: responses sent for the request in hand
    options,     \* SpecParams: the options a caller passes to generateText
    outbound,    \* SpecParams: the request each generateText sends to the provider
    opc,         \* SpecParams: "ready" before, "done" after the requests are built
    providerUsage, \* SpecUsage: the usage object of a provider response
    normalized,  \* SpecUsage: the usage of the result of each normalizer
    upc,         \* SpecUsage: "ready" before, "done" after the normalization
    openai,      \* SpecConcurrent: the provider client of the process
    inflight,    \* SpecConcurrent: for each client, where its request is, the request and its provider reply
    frames,      \* SpecConcurrent: the locals of each activation of the handler
    sent,        \* SpecConcurrent: the prompt of the provider call made for each client
    delivered,   \* SpecConcurrent: the response each client has received
    entered,     \* SpecConcurrent: the clients in the order their requests arrived
    settled,     \* SpecConcurrent: the clients in the order their provider calls resolved
    httpReq,     \* SpecRouting: a request as it reaches the application
    handler,     \* SpecRouting: the middleware or route that took the request
    httpReply,   \* SpecRouting: the response that middleware or route sent
    hpc,         \* SpecRouting: "ready" before, "done" after the request is dispatched
    boot,        \* SpecServer: where startServer is
    database,    \* SpecServer: whether the database client is connected
    dbConnected, \* SpecServer: prisma.$connect() has resolved
    dbFailed,    \* SpecServer: prisma.$connect() has rejected
    redisFailed, \* SpecServer: the Redis client could not be made or pinged
    redisClient, \* SpecServer: the Redis client the redis module holds
    made,        \* SpecServer: Redis clients constructed so far
    warned,      \* SpecServer: logger.warn entries of connectServices
    listening,   \* SpecServer: app.listen has been called
    exited,      \* SpecServer: process.exit has been called
    exitCode,    \* SpecServer: the code process.exit was called with
    exitedBy,    \* SpecServer: the function that called process.exit
    shutdowns,   \* SpecServer: for each trigger, where its gracefulShutdown is
    closers,     \* SpecRedis: for each caller, whether its closeRedisClient awaits quit()
    lastCall,    \* SpecRedis: the last call of the redis module that returned or began to wait
    sinceClose,  \* SpecRedis: a client was constructed after the last close that completed
    events       \* Spec: the stages the request in hand has passed

xvars == <<response, extracted, xpc>>

(***************************************************************************)
(* Bounds of the model.                                                    *)
(***************************************************************************)
MaxItems == 2
MaxContent == 2
MaxArr == 4
MaxLines == 4
BlankLen == 2
MaxCallers == 3
MaxClients == 3
MaxTokens == 2
MaxInFlight == 2

(***************************************************************************)
(* Generic helpers.                                                        *)
(***************************************************************************)
SeqsUpTo(S, n) == UNION {[1..k -> S] : k \in 0..n}

EmptyText == <<>>

(***************************************************************************)
(* Texts: JavaScript string operations, character by character.            *)
(***************************************************************************)
\* Characters String.prototype.trim and the regular expression \s remove.
WhiteSpace == {" ", "\n", "\t", "\r"}

SubText(s, i, j) == IF i > j THEN <<>> ELSE SubSeq(s, i, j)

IsBlank(s) == \A i \in 1..Len(s) : s[i] \in WhiteSpace

\* String.prototype.trim
Trim(s) ==
    IF IsBlank(s) THEN <<>>
    ELSE LET a == CHOOSE i \in 1..Len(s) :
                      s[i] \notin WhiteSpace /\ \A k \in 1..(i - 1) : s[k] \in WhiteSpace
             b == CHOOSE j \in 1..Len(s) :
                      s[j] \notin WhiteSpace /\ \A k \in (j + 1)..Len(s) : s[k] \in WhiteSpace
         IN  SubText(s, a, b)

\* String.prototype.startsWith
StartsWith(s, p) == Len(s) >= Len(p) /\ SubText(s, 1, Len(p)) = p

EndsWith(s, p) == Len(s) >= Len(p) /\ SubText(s, Len(s) - Len(p) + 1, Len(s)) = p

\* s without its leading white space (the \s* that follows a matched prefix).
DropLeadingSpace(s) ==
    IF IsBlank(s) THEN <<>>
    ELSE SubText(s, CHOOSE i \in 1..Len(s) :
                        s[i] \notin WhiteSpace /\ \A k \in 1..(i - 1) : s[k] \in WhiteSpace,
                 Len(s))

DropTrailingSpace(s) ==
    IF IsBlank(s) THEN <<>>
    ELSE SubText(s, 1, CHOOSE j \in 1..Len(s) :
                        s[j] \notin WhiteSpace /\ \A k \in (j + 1)..Len(s) : s[k] \in WhiteSpace)

\* String.prototype.split('\n')
RECURSIVE SplitFrom(_, _, _)
SplitFrom(s, i, cur) ==
    IF i > Len(s) THEN <<cur>>
    ELSE IF s[i] = "\n" THEN <<cur>> \o SplitFrom(s, i + 1, <<>>)
    ELSE SplitFrom(s, i + 1, Append(cur, s[i]))

SplitLines(s) == SplitFrom(s, 1, <<>>)

\* Array.prototype.filter, map and slice(0, n) on sequences.
FilterSeq(s, P(_)) ==
    LET F[i \in 0..Len(s)] ==
            IF i = 0 THEN <<>>
            ELSE IF P(s[i]) THEN Append(F[i - 1], s[i]) ELSE F[i - 1]
    IN  F[Len(s)]

MapSeq(s, F(_)) == [i \in 1..Len(s) |-> F(s[i])]

Take(s, n) == SubText(s, 1, IF Len(s) < n THEN Len(s) ELSE n)

RECURSIVE Flatten(_)
Flatten(ss) == IF ss = <<>> THEN <<>> ELSE Head(ss) \o Flatten(Tail(ss))

RECURSIVE JoinWith(_, _)
JoinWith(ss, sep) ==
    IF ss = <<>> THEN <<>>
    ELSE IF Len(ss) = 1 THEN ss[1]
    ELSE ss[1] \o sep \o JoinWith(Tail(ss), sep)

\* The backtick character (a TLA+ string cannot hold one).
Backtick == "BACKTICK"
Backticks == <<Backtick, Backtick, Backtick>>
FenceJson == Backticks \o <<"j", "s", "o", "n">>
KeySuggestions == <<"s", "u", "g", "g", "e", "s", "t", "i", "o", "n", "s">>

(***************************************************************************)
(* JSON values.  One record shape for every value: t is the JSON type, s   *)
(* the characters of a string or the digits of a number, keys and kids the *)
(* member names and values of an object, kids the elements of an array.    *)
(***************************************************************************)
JNull == [t |-> "null", s |-> <<>>, keys |-> <<>>, kids |-> <<>>]
JTrue == [t |-> "true", s |-> <<>>, keys |-> <<>>, kids |-> <<>>]
JFalse == [t |-> "false", s |-> <<>>, keys |-> <<>>, kids |-> <<>>]
JStr(cs) == [t |-> "string", s |-> cs, keys |-> <<>>, kids |-> <<>>]
JNum(ds) == [t |-> "number", s |-> ds, keys |-> <<>>, kids |-> <<>>]
JArr(vs) == [t |-> "array", s |-> <<>>, keys |-> <<>>, kids |-> vs]
JObj(ks, vs) == [t |-> "object", s |-> <<>>, keys |-> ks, kids |-> vs]

Digits == {"0", "1", "2", "3", "4", "5", "6", "7", "8", "9"}

\* JSON.stringify of one character of a string.
EscapeChar(c) ==
    IF c = "\"" THEN <<"\\", "\"">>
    ELSE IF c = "\\" THEN <<"\\", "\\">>
    ELSE IF c = "\n" THEN <<"\\", "n">>
    ELSE IF c = "\t" THEN <<"\\", "t">>
    ELSE IF c = "\r" THEN <<"\\", "r">>
    ELSE <<c>>

Quote(cs) == <<"\"">> \o Flatten(MapSeq(cs, EscapeChar)) \o <<"\"">>

\* JSON.stringify(value) and JSON.stringify(value, null, 1): nl is the text put
\* after "[", "{" and "," and before "]", "}" (empty, or a line break).
RECURSIVE Stringify(_, _)
Stringify(v, nl) ==
    IF v.t = "string" THEN Quote(v.s)
    ELSE IF v.t = "number" THEN v.s
    ELSE IF v.t = "null" THEN <<"n", "u", "l", "l">>
    ELSE IF v.t = "true" THEN <<"t", "r", "u", "e">>
    ELSE IF v.t = "false" THEN <<"f", "a", "l", "s", "e">>
    ELSE IF v.t = "array" THEN
        IF v.kids = <<>> THEN <<"[", "]">>
        ELSE <<"[">> \o nl
             \o JoinWith([i \in 1..Len(v.kids) |-> Stringify(v.kids[i], nl)], <<",">> \o nl)
             \o nl \o <<"]">>
    ELSE IF v.kids = <<>> THEN <<"{", "}">>
    ELSE <<"{">> \o nl
         \o JoinWith([i \in 1..Len(v.kids) |->
                        Quote(v.keys[i]) \o <<":">> \o Stringify(v.kids[i], nl)],
                     <<",">> \o nl)
         \o nl \o <<"}">>

\* A parse result: ok, the value, and the index of the first character after it.
PFail == [ok |-> FALSE, v |-> JNull, i |-> 0]
POk(v, i) == [ok |-> TRUE, v |-> v, i |-> i]

RECURSIVE SkipSpace(_, _)
SkipSpace(s, i) ==
    IF i <= Len(s) /\ s[i] \in WhiteSpace THEN SkipSpace(s, i + 1) ELSE i

\* The characters of a string literal from index i (after the opening quote).
\* Escapes \b, \f and \uXXXX are not produced by the texts of the model.
RECURSIVE StringBody(_, _, _)
StringBody(s, i, acc) ==
    IF i > Len(s) THEN PFail
    ELSE IF s[i] = "\"" THEN POk(JStr(acc), i + 1)
    ELSE IF s[i] = "\\" THEN
        IF i + 1 > Len(s) THEN PFail
        ELSE IF s[i + 1] \in {"\"", "\\", "/"} THEN StringBody(s, i + 2, Append(acc, s[i + 1]))
        ELSE IF s[i + 1] = "n" THEN StringBody(s, i + 2, Append(acc, "\n"))
        ELSE IF s[i + 1] = "t" THEN StringBody(s, i + 2, Append(acc, "\t"))
        ELSE IF s[i + 1] = "r" THEN StringBody(s, i + 2, Append(acc, "\r"))
        ELSE PFail
    ELSE IF s[i] \in {"\n", "\t", "\r"} THEN PFail
    ELSE StringBody(s, i + 1, Append(acc, s[i]))

RECURSIVE DigitsEnd(_, _)
DigitsEnd(s, i) == IF i <= Len(s) /\ s[i] \in Digits THEN DigitsEnd(s, i + 1) ELSE i

\* An unsigned integer literal; a leading zero ends the number.
ParseNumber(s, i) ==
    LET e == IF s[i] = "0" THEN i + 1 ELSE DigitsEnd(s, i)
    IN  POk(JNum(SubText(s, i, e - 1)), e)

ParseLiteral(s, i) ==
    LET rest == SubText(s, i, Len(s))
    IN  IF StartsWith(rest, <<"n", "u", "l", "l">>) THEN POk(JNull, i + 4)
        ELSE IF StartsWith(rest, <<"t", "r", "u", "e">>) THEN POk(JTrue, i + 4)
        ELSE IF StartsWith(rest, <<"f", "a", "l", "s", "e">>) THEN POk(JFalse, i + 5)
        ELSE PFail

RECURSIVE ParseValue(_, _)
RECURSIVE ParseElems(_, _, _)
RECURSIVE ParseMembers(_, _, _, _)

\* The value that starts at index i (white space already skipped).
ParseValue(s, i) ==
    IF i > Len(s) THEN PFail
    ELSE IF s[i] = "\"" THEN StringBody(s, i + 1, <<>>)
    ELSE IF s[i] \in Digits THEN ParseNumber(s, i)
    ELSE IF s[i] = "[" THEN
        LET j == SkipSpace(s, i + 1)
        IN  IF j <= Len(s) /\ s[j] = "]" THEN POk(JArr(<<>>), j + 1)
            ELSE ParseElems(s, j, <<>>)
    ELSE IF s[i] = "{" THEN
        LET j == SkipSpace(s, i + 1)
        IN  IF j <= Len(s) /\ s[j] = "}" THEN POk(JObj(<<>>, <<>>), j + 1)
            ELSE ParseMembers(s, j, <<>>, <<>>)
    ELSE ParseLiteral(s, i)

ParseElems(s, i, acc) ==
    LET r == ParseValue(s, i)
        j == SkipSpace(s, r.i)
    IN  IF ~r.ok \/ j > Len(s) THEN PFail
        ELSE IF s[j] = "," THEN ParseElems(s, SkipSpace(s, j + 1), Append(acc, r.v))
        ELSE IF s[j] = "]" THEN POk(JArr(Append(acc, r.v)), j + 1)
        ELSE PFail

ParseMembers(s, i, ks, vs) ==
    IF i > Len(s) \/ s[i] # "\"" THEN PFail
    ELSE LET k == StringBody(s, i + 1, <<>>)
             c == SkipSpace(s, k.i)
         IN  IF ~k.ok \/ c > Len(s) \/ s[c] # ":" THEN PFail
             ELSE LET r == ParseValue(s, SkipSpace(s, c + 1))
                      j == SkipSpace(s, r.i)
                  IN  IF ~r.ok \/ j > Len(s) THEN PFail
                      ELSE IF s[j] = "," THEN
                          ParseMembers(s, SkipSpace(s, j + 1),
                                       Append(ks, k.v.s), Append(vs, r.v))
                      ELSE IF s[j] = "}" THEN
                          POk(JObj(Append(ks, k.v.s), Append(vs, r.v)), j + 1)
                      ELSE PFail

\* JSON.parse: one value, white space allowed around it, nothing else after it.
\* A result that is not ok stands for the SyntaxError JSON.parse throws.
JSONparse(s) ==
    LET r == ParseValue(s, SkipSpace(s, 1))
    IN  IF r.ok /\ SkipSpace(s, r.i) = Len(s) + 1 THEN r ELSE PFail

\* Property access obj[key] on a parsed value: the last member of that name.
\* has is FALSE where JavaScript yields undefined (no such member, or a
\* primitive or an array, none of which has a property named suggestions).
GetMember(v, key) ==
    LET hits == IF v.t = "object" THEN {i \in 1..Len(v.keys) : v.keys[i] = key} ELSE {}
    IN  IF hits = {} THEN [has |-> FALSE, v |-> JNull]
        ELSE [has |-> TRUE, v |-> v.kids[CHOOSE i \in hits : \A j \in hits : j <= i]]

\* JavaScript truthiness of a parsed value.
Truthy(v) ==
    IF v.t \in {"null", "false"} THEN FALSE
    ELSE IF v.t = "string" THEN v.s # <<>>
    ELSE IF v.t = "number" THEN v.s # <<"0">>
    ELSE TRUE

(***************************************************************************)
(* Errors and outcomes.  An error has the class it is an instance of       *)
(* (AppError, the provider library's APIError, a plain Error, or a thrown  *)
(* value that is no Error), a code, a message (the parts it is built from, *)
(* in order), an HTTP status (0: none) and the numbers its message names.  *)
(***************************************************************************)
OK == 200
BAD_REQUEST == 400
NOT_FOUND == 404
TOO_MANY_REQUESTS == 429
INTERNAL_SERVER_ERROR == 500

AppErrorN(code, msg, status, nums) ==
    [kind |-> "AppError", code |-> code, msg |-> msg, status |-> status, nums |-> nums]

AppError(code, msg, status) == AppErrorN(code, msg, status, {})

NoError == [kind |-> "none", code |-> "", msg |-> <<>>, status |-> 0, nums |-> {}]

APIErrorOf(status) ==
    [kind |-> "APIError", code |-> "", msg |-> <<"Rate limit reached">>,
     status |-> status, nums |-> {}]

GenericError(message) ==
    [kind |-> "Error", code |-> "", msg |-> <<message>>, status |-> 0, nums |-> {}]

ThrownValue == [kind |-> "other", code |-> "", msg |-> <<>>, status |-> 0, nums |-> {}]

NoSuggestions == <<>>

Success(text, suggestions) ==
    [ok |-> TRUE, text |-> text, suggestions |-> suggestions, err |-> NoError]

Failure(err) == [ok |-> FALSE, text |-> <<>>, suggestions |-> <<>>, err |-> err]

(***************************************************************************)
(* Structured-output recovery of generateResponseSuggestions.              *)
(***************************************************************************)
\* Mutant: the closing fence is left in place.
StripTrailingFence_keepsFence(s) == s

\* .replace(/\s*```$/, '')
StripTrailingFence(s) ==
    IF EndsWith(s, Backticks) THEN DropTrailingSpace(SubText(s, 1, Len(s) - 3)) ELSE s

\* if (startsWith('```json')) replace(/^```json\s*/), replace(/\s*```$/)
\* else if (startsWith('```')) replace(/^```\s*/), replace(/\s*```$/)
StripFence(clean) ==
    IF StartsWith(clean, FenceJson)
    THEN StripTrailingFence(DropLeadingSpace(SubText(clean, Len(FenceJson) + 1, Len(clean))))
    ELSE IF StartsWith(clean, Backticks)
    THEN StripTrailingFence(DropLeadingSpace(SubText(clean, Len(Backticks) + 1, Len(clean))))
    ELSE clean

NonEmptyText(s) == Len(s) > 0
TextOf(v) == v.s
TrimmedTextOf(v) == Trim(v.s)

Thrown(what) == [ok |-> FALSE, suggestions |-> <<>>, threw |-> what]

\* Mutant: the suggestions are kept as parsed, neither trimmed nor filtered.
StrictTier_noTrim(text) ==
    LET p == JSONparse(StripFence(Trim(text)))
        m == GetMember(p.v, KeySuggestions)
    IN  IF ~p.ok \/ ~m.has \/ m.v.t # "array" \/ Len(m.v.kids) < 3
           \/ \E i \in 1..3 : m.v.kids[i].t # "string"
        THEN Thrown("Error")
        ELSE [ok |-> TRUE, suggestions |-> MapSeq(Take(m.v.kids, 3), TextOf), threw |-> ""]

\* Mutant: the suggestions are trimmed and filtered before the first three
\* are taken.
StrictTier_filterFirst(text) ==
    LET p == JSONparse(StripFence(Trim(text)))
        m == GetMember(p.v, KeySuggestions)
    IN  IF ~p.ok THEN Thrown("SyntaxError")
        ELSE IF p.v.t = "null" THEN Thrown("TypeError")
        ELSE IF ~m.has \/ ~Truthy(m.v) \/ m.v.t # "array" THEN Thrown("Error")
        ELSE IF Len(m.v.kids) < 3 THEN Thrown("Error")
        ELSE IF \E i \in 1..Len(m.v.kids) : m.v.kids[i].t # "string" THEN Thrown("TypeError")
        ELSE LET kept == FilterSeq(MapSeq(m.v.kids, TrimmedTextOf), NonEmptyText)
             IN  IF Len(kept) < 3 THEN Thrown("Error")
                 ELSE [ok |-> TRUE, suggestions |-> Take(kept, 3), threw |-> ""]

\* The inner try block: clean, JSON.parse, validate, slice(0, 3), trim, filter.
\* threw names what the block throws; the inner catch catches all of them.
StrictTier(text) ==
    LET p == JSONparse(StripFence(Trim(text)))
        m == GetMember(p.v, KeySuggestions)
    IN  IF ~p.ok THEN Thrown("SyntaxError")
        ELSE IF p.v.t = "null" THEN Thrown("TypeError")
        ELSE IF ~m.has \/ ~Truthy(m.v) \/ m.v.t # "array" THEN Thrown("Error")
        ELSE IF Len(m.v.kids) < 3 THEN Thrown("Error")
        ELSE IF \E i \in 1..3 : m.v.kids[i].t # "string" THEN Thrown("TypeError")
        ELSE LET kept == FilterSeq(MapSeq(Take(m.v.kids, 3), TrimmedTextOf), NonEmptyText)
             IN  IF Len(kept) < 3 THEN Thrown("Error")
                 ELSE [ok |-> TRUE, suggestions |-> kept, threw |-> ""]

FallbackKeeps(line) ==
    Len(line) > 0 /\ ~StartsWith(line, <<"{">>) /\ ~StartsWith(line, <<"[">>)

\* text.split('\n').map(trim).filter(non-empty, not '{', not '[').slice(0, 3)
FallbackLines(text) == Take(FilterSeq(MapSeq(SplitLines(text), Trim), FallbackKeeps), 3)

\* The outer catch: an AppError is rethrown as it is, anything else is wrapped.
suggestionsCatch(err) ==
    IF err.kind = "AppError" THEN err
    ELSE AppError("INTERNAL_SERVER_ERROR", <<"Failed to generate response suggestions">>,
                  INTERNAL_SERVER_ERROR)

\* Mutant: a failed fallback is reported as a validation error.
RecoveryFailure_validation ==
    AppError("VALIDATION_ERROR", <<"Failed to parse response suggestions from LLM output">>,
             BAD_REQUEST)

\* The error thrown when the fallback recovers fewer than 3 lines.
RecoveryFailure ==
    AppError("INTERNAL_SERVER_ERROR", <<"Failed to parse response suggestions from LLM output">>,
             INTERNAL_SERVER_ERROR)

\* generateResponseSuggestions, from the outcome gt of its generateText call on.
generateResponseSuggestions(gt) ==
    IF ~gt.ok THEN Failure(suggestionsCatch(gt.err))
    ELSE LET strict == StrictTier(gt.text)
             lines == FallbackLines(gt.text)
         IN  IF strict.ok THEN Success(<<>>, strict.suggestions)
             ELSE IF Len(lines) >= 3 THEN Success(<<>>, Take(lines, 3))
             ELSE Failure(suggestionsCatch(RecoveryFailure))

(***************************************************************************)
(* Responses-API output lists.  An item has a type and possibly a content  *)
(* list; a content element has a type and a text.                          *)
(***************************************************************************)
ContentElems ==
    {[type |-> "output_text", text |-> <<>>],
     [type |-> "output_text", text |-> <<"a">>],
     [type |-> "output_text", text |-> <<"b">>],
     [type |-> "refusal", text |-> <<"c">>]}

OutputItems ==
    {[type |-> "message", hasContent |-> TRUE, content |-> c] :
        c \in SeqsUpTo(ContentElems, MaxContent)}
    \cup {[type |-> "message", hasContent |-> FALSE, content |-> <<>>],
          [type |-> "reasoning", hasContent |-> FALSE, content |-> <<>>],
          [type |-> "reasoning", hasContent |-> TRUE,
           content |-> <<[type |-> "output_text", text |-> <<"c">>]>>]}

ResponseOutputs ==
    {[hasOutput |-> TRUE, output |-> o] : o \in SeqsUpTo(OutputItems, MaxItems)}
    \cup {[hasOutput |-> FALSE, output |-> <<>>]}

\* Array.prototype.find: index of the first element satisfying P, 0 if none.
FindIndex(s, P(_)) ==
    IF \E i \in 1..Len(s) : P(s[i])
    THEN CHOOSE i \in 1..Len(s) : P(s[i]) /\ \A j \in 1..(i - 1) : ~P(s[j])
    ELSE 0

IsMessage(item) == item.type = "message"
IsOutputText(c) == c.type = "output_text"

\* extractTextFromResponse (helper of the Responses-API service):
\*   output?.find(message)?.content?.find(output_text)?.text || ''
extractTextFromResponse(r) ==
    LET mi == IF r.hasOutput THEN FindIndex(r.output, IsMessage) ELSE 0
        cs == IF mi = 0 \/ ~r.output[mi].hasContent THEN <<>> ELSE r.output[mi].content
        ci == FindIndex(cs, IsOutputText)
    IN  IF ci = 0 THEN EmptyText ELSE cs[ci].text

\* The inline extraction loop of the earlier Responses-API generateText:
\* every message item is scanned, an output_text element counts only when its
\* text is truthy, and the scan stops at the first such text.
RECURSIVE ScanContent(_, _)
ScanContent(cs, i) ==
    IF i > Len(cs) THEN EmptyText
    ELSE IF cs[i].type = "output_text" /\ cs[i].text # EmptyText THEN cs[i].text
    ELSE ScanContent(cs, i + 1)

RECURSIVE ScanOutput(_, _)
ScanOutput(out, i) ==
    IF i > Len(out) THEN EmptyText
    ELSE LET item == out[i]
             t == IF item.type = "message" /\ item.hasContent
                  THEN ScanContent(item.content, 1) ELSE EmptyText
         IN  IF t # EmptyText THEN t ELSE ScanOutput(out, i + 1)

extractTextInline(r) ==
    IF r.hasOutput /\ Len(r.output) > 0 THEN ScanOutput(r.output, 1) ELSE EmptyText

(***************************************************************************)
(* Provider outcomes.  A provider call either throws (err) or returns a    *)
(* Responses-API object (resp) or a chat-completions object (choices).  A  *)
(* choice may lack its message; content is empty for a null content too.   *)
(***************************************************************************)
NoResponse == [hasOutput |-> FALSE, output |-> <<>>]

Threw(err) == [err |-> err, resp |-> NoResponse, choices |-> <<>>]
Responded(r) == [err |-> NoError, resp |-> r, choices |-> <<>>]
Completed(cs) == [err |-> NoError, resp |-> NoResponse, choices |-> cs]

Choice(hasMessage, content) == [hasMessage |-> hasMessage, content |-> content]

Statuses == {0, 400, 401, 429, 500, 503}

ProviderErrors ==
    {APIErrorOf(st) : st \in Statuses} \cup {GenericError("socket hang up"), ThrownValue}

(***************************************************************************)
(* Provider error mappers: the catch blocks of the services.               *)
(***************************************************************************)
\* Mutant: every provider error is reported with status 500.
mapProviderError_always500(err, label) ==
    IF err.kind = "APIError"
    THEN AppError("OPENAI_API_ERROR", <<"OpenAI API Error: ">> \o err.msg, INTERNAL_SERVER_ERROR)
    ELSE IF err.kind \in {"Error", "AppError"}
    THEN AppError("INTERNAL_SERVER_ERROR", <<label, ": ">> \o err.msg, INTERNAL_SERVER_ERROR)
    ELSE AppError("INTERNAL_SERVER_ERROR", <<label>>, INTERNAL_SERVER_ERROR)

\* catch (error): instanceof OpenAI.APIError, else instanceof Error (an AppError
\* is an Error), else anything.  error.status || 500.
mapProviderError(err, label) ==
    IF err.kind = "APIError"
    THEN AppError("OPENAI_API_ERROR", <<"OpenAI API Error: ">> \o err.msg,
                  IF err.status # 0 THEN err.status ELSE INTERNAL_SERVER_ERROR)
    ELSE IF err.kind \in {"Error", "AppError"}
    THEN AppError("INTERNAL_SERVER_ERROR", <<label, ": ">> \o err.msg, INTERNAL_SERVER_ERROR)
    ELSE AppError("INTERNAL_SERVER_ERROR", <<label>>, INTERNAL_SERVER_ERROR)

\* The catch of the current translateText: an AppError is rethrown as it is.
mapTranslateError(err) ==
    IF err.kind = "AppError" THEN err ELSE mapProviderError(err, "Failed to translate text")

\* The catch of the earlier translateText: no AppError branch.
mapTranslateErrorLegacy(err) == mapProviderError(err, "Failed to translate text")

(***************************************************************************)
(* Services, each from the outcome of its provider call on.                *)
(***************************************************************************)
\* Mutant: a response without text is treated as a failure.
generateText_emptyIsError(p) ==
    IF p.err.kind # "none" THEN Failure(mapProviderError(p.err, "Failed to generate text"))
    ELSE IF extractTextFromResponse(p.resp) = <<>>
    THEN Failure(AppError("OPENAI_API_ERROR", <<"No text received from OpenAI">>,
                          INTERNAL_SERVER_ERROR))
    ELSE Success(extractTextFromResponse(p.resp), NoSuggestions)

\* generateText of the Responses-API service with the extraction helper.
generateText(p) ==
    IF p.err.kind # "none" THEN Failure(mapProviderError(p.err, "Failed to generate text"))
    ELSE Success(extractTextFromResponse(p.resp), NoSuggestions)

talkWithSpecificTopic(p) ==
    IF p.err.kind # "none"
    THEN Failure(mapProviderError(p.err, "Failed to generate topic conversation"))
    ELSE Success(extractTextFromResponse(p.resp), NoSuggestions)

\* generateText of the earlier Responses-API service, with the inline loop.
generateTextInline(p) ==
    IF p.err.kind # "none" THEN Failure(mapProviderError(p.err, "Failed to generate text"))
    ELSE Success(extractTextInline(p.resp), NoSuggestions)

\* generateText of the chat-completions service: a missing choice or message
\* throws inside the try block and is mapped by its catch.
generateTextChat(p) ==
    IF p.err.kind # "none" THEN Failure(mapProviderError(p.err, "Failed to generate text"))
    ELSE IF p.choices = <<>> \/ ~p.choices[1].hasMessage
    THEN Failure(mapProviderError(GenericError("No completion choice returned from OpenAI"),
                                  "Failed to generate text"))
    ELSE Success(p.choices[1].content, NoSuggestions)

LANGUAGE_NAMES == {"zh-CN", "zh-TW", "ja", "ko", "es", "fr", "de"}

DEFAULT_TARGET_LANGUAGE == "zh-TW"

\* Object.keys(LANGUAGE_NAMES), and the set and the text the controller makes
\* of it.
SUPPORTED_LANGUAGES == <<"zh-CN", "zh-TW", "ja", "ko", "es", "fr", "de">>

SUPPORTED_LANGUAGES_SET == {SUPPORTED_LANGUAGES[i] : i \in DOMAIN SUPPORTED_LANGUAGES}

SUPPORTED_LANGUAGES_STRING ==
    JoinWith([i \in DOMAIN SUPPORTED_LANGUAGES |-> <<SUPPORTED_LANGUAGES[i]>>], <<", ">>)

\* completion.choices[0]?.message?.content?.trim() ?? ''
\* Mutant: the content of the first choice is taken as it is.
FirstContentTrimmed_untrimmed(p) ==
    IF p.choices = <<>> \/ ~p.choices[1].hasMessage THEN <<>> ELSE p.choices[1].content

FirstContentTrimmed(p) ==
    IF p.choices = <<>> \/ ~p.choices[1].hasMessage THEN <<>> ELSE Trim(p.choices[1].content)

NoTranslation ==
    AppError("OPENAI_API_ERROR", <<"No translation received from OpenAI">>,
             INTERNAL_SERVER_ERROR)

UnsupportedLanguage(lang) ==
    AppError("VALIDATION_ERROR", <<"Unsupported target language: ", lang>>, BAD_REQUEST)

\* The language test translateText makes before it calls the provider.
translateTextPre(lang) ==
    IF lang \notin LANGUAGE_NAMES THEN mapTranslateError(UnsupportedLanguage(lang)) ELSE NoError

\* return { translatedText, sourceLanguage: 'en', targetLanguage, model, usage }
TranslationResponse(translatedText, targetLanguage) ==
    [ok |-> TRUE, text |-> translatedText, suggestions |-> NoSuggestions, err |-> NoError,
     sourceLanguage |-> "en", targetLanguage |-> targetLanguage]

translateTextPost(lang, p) ==
    IF p.err.kind # "none" THEN Failure(mapTranslateError(p.err))
    ELSE IF FirstContentTrimmed(p) = <<>> THEN Failure(mapTranslateError(NoTranslation))
    ELSE TranslationResponse(FirstContentTrimmed(p), lang)

\* translateText of the current translation service.
translateText(lang, p) ==
    IF translateTextPre(lang).kind # "none" THEN Failure(translateTextPre(lang))
    ELSE translateTextPost(lang, p)

\* translateText of the earlier translation service: any language name is
\* forwarded, and the AppError thrown for an empty translation is caught by
\* the function's own catch.
translateTextLegacy(lang, p) ==
    IF p.err.kind # "none" THEN Failure(mapTranslateErrorLegacy(p.err))
    ELSE IF FirstContentTrimmed(p) = <<>> THEN Failure(mapTranslateErrorLegacy(NoTranslation))
    ELSE TranslationResponse(FirstContentTrimmed(p), lang)

(***************************************************************************)
(* Model replies.  A reply is put together from a recipe: the kind of body *)
(* (an object with a suggestions array, an object without one, a bare      *)
(* array, a scalar, a truncated object, plain lines), the array or lines,  *)
(* the layout (compact or one element per line), the markdown fence around *)
(* it and whether commentary follows it.                                   *)
(***************************************************************************)
\* Array elements: plain, padded, blank-only, empty and awkward strings, a number.
ArrayElems ==
    {JStr(<<"a">>), JStr(<<" ", "b", " ">>), JStr(<<" ">>), JStr(<<>>),
     JStr(<<"{", "\"", "\\", "\n", Backtick>>), JNum(<<"7">>)}

PlainLines == {<<"a">>, <<" ", "b", " ">>, <<>>, <<" ">>, <<"{", "a">>, <<"[", "b">>}

Wrappings ==
    {[fence |-> "none", pretty |-> FALSE, tail |-> FALSE],
     [fence |-> "none", pretty |-> FALSE, tail |-> TRUE],
     [fence |-> "json", pretty |-> FALSE, tail |-> FALSE],
     [fence |-> "json", pretty |-> TRUE, tail |-> FALSE],
     [fence |-> "bare", pretty |-> FALSE, tail |-> FALSE],
     [fence |-> "tag", pretty |-> FALSE, tail |-> FALSE],
     [fence |-> "tag", pretty |-> TRUE, tail |-> FALSE]}

NoWrapping == [fence |-> "none", pretty |-> FALSE, tail |-> FALSE]

Recipes ==
    {[kind |-> "suggestions", arr |-> a, wrap |-> w, err |-> NoError] :
        a \in SeqsUpTo(ArrayElems, MaxArr), w \in Wrappings}
    \cup {[kind |-> k, arr |-> a, wrap |-> w, err |-> NoError] :
        k \in {"otherKey", "bareArray", "truncated"},
        a \in [1..3 -> {JStr(<<"a">>), JStr(<<" ", "b", " ">>)}],
        w \in Wrappings}
    \cup {[kind |-> "scalar", arr |-> <<v>>, wrap |-> w, err |-> NoError] :
        v \in {JNull, JNum(<<"7">>), JStr(<<"a">>), JTrue}, w \in Wrappings}
    \cup {[kind |-> "lines", arr |-> MapSeq(ls, JStr), wrap |-> NoWrapping, err |-> NoError] :
        ls \in SeqsUpTo(PlainLines, MaxLines)}
    \cup {[kind |-> "throws", arr |-> <<>>, wrap |-> NoWrapping, err |-> e] :
        e \in ProviderErrors}

LineBreak == <<"\n">>
Commentary == <<"\n", "o", "k", " ", "?">>
FenceTag == Backticks \o <<"j", "a", "v", "a", "s", "c", "r", "i", "p", "t">>

Body(r) ==
    LET nl == IF r.wrap.pretty THEN LineBreak ELSE <<>>
        obj == Stringify(JObj(<<KeySuggestions>>, <<JArr(r.arr)>>), nl)
    IN  IF r.kind = "suggestions" THEN obj
        ELSE IF r.kind = "otherKey" THEN Stringify(JObj(<<<<"x">>>>, <<JArr(r.arr)>>), nl)
        ELSE IF r.kind = "bareArray" THEN Stringify(JArr(r.arr), nl)
        ELSE IF r.kind = "scalar" THEN Stringify(r.arr[1], nl)
        ELSE IF r.kind = "truncated" THEN SubText(obj, 1, Len(obj) - Len(nl) - 2)
        ELSE JoinWith(MapSeq(r.arr, TextOf), LineBreak)

\* The reply the model sends for a recipe.
Render(r) ==
    LET b == Body(r)
        fenced == IF r.wrap.fence = "json" THEN FenceJson \o LineBreak \o b \o LineBreak \o Backticks
                  ELSE IF r.wrap.fence = "bare" THEN Backticks \o LineBreak \o b \o LineBreak \o Backticks
                  ELSE IF r.wrap.fence = "tag" THEN FenceTag \o LineBreak \o b \o LineBreak \o Backticks
                  ELSE b
    IN  IF r.wrap.tail THEN fenced \o Commentary ELSE fenced

TextMessage(t) ==
    [type |-> "message", hasContent |-> TRUE,
     content |-> <<[type |-> "output_text", text |-> t]>>]

\* How the provider call ends for a recipe: it throws, or it resolves with one
\* message that carries the reply.
ProviderReply(r) ==
    IF r.kind = "throws" THEN Threw(r.err)
    ELSE Responded([hasOutput |-> TRUE, output |-> <<TextMessage(Render(r))>>])

(***************************************************************************)
(* SpecRecovery: generateResponseSuggestions applied to every model reply. *)
(***************************************************************************)
Recover ==
    /\ rpc = "ready"
    /\ recovered' = generateResponseSuggestions(generateText(modelReply))
    /\ rpc' = "done"
    /\ UNCHANGED <<recipe, modelReply>>

rvars == <<recipe, modelReply, recovered, rpc>>

(***************************************************************************)
(* SpecExtract: the Responses-API normalizers applied to every bounded     *)
(* response object.                                                        *)
(***************************************************************************)
NoExtraction ==
    [generateText |-> Failure(NoError), talkWithSpecificTopic |-> Failure(NoError),
     generateTextInline |-> Failure(NoError)]

Normalize ==
    /\ xpc = "ready"
    /\ extracted' = [generateText |-> generateText(Responded(response)),
                     talkWithSpecificTopic |-> talkWithSpecificTopic(Responded(response)),
                     generateTextInline |-> generateTextInline(Responded(response))]
    /\ xpc' = "done"
    /\ UNCHANGED response

(***************************************************************************)
(* SpecService: the service functions called directly, with every target   *)
(* language and every provider outcome of the model.                       *)
(***************************************************************************)
ChatReplies ==
    {<<>>,
     <<Choice(FALSE, <<>>)>>,
     <<Choice(TRUE, <<>>)>>,
     <<Choice(TRUE, <<" ">>)>>,
     <<Choice(TRUE, <<"a">>)>>,
     <<Choice(TRUE, <<" ", "a", " ">>)>>,
     <<Choice(TRUE, <<"a">>), Choice(TRUE, <<"b">>)>>}

ChatOutcomes == {Threw(e) : e \in ProviderErrors} \cup {Completed(c) : c \in ChatReplies}

\* A few replies of the Responses API, among them replies for the suggestions prompt.
SampleRecipes ==
    {[kind |-> "suggestions", arr |-> a, wrap |-> w, err |-> NoError] :
        a \in {<<JStr(<<"a">>), JStr(<<" ", "b", " ">>), JStr(<<"a">>)>>,
               <<JStr(<<"a">>), JStr(<<"a">>)>>},
        w \in Wrappings}
    \cup {[kind |-> "lines", arr |-> MapSeq(ls, JStr), wrap |-> NoWrapping, err |-> NoError] :
        ls \in {<<<<"a">>, <<" ", "b", " ">>, <<"a">>>>, <<<<"a">>>>}}

SampleResponses ==
    {NoResponse,
     [hasOutput |-> TRUE, output |-> <<>>],
     [hasOutput |-> TRUE, output |-> <<TextMessage(<<>>)>>],
     [hasOutput |-> TRUE, output |-> <<TextMessage(<<"a">>)>>]}
    \cup {[hasOutput |-> TRUE, output |-> <<TextMessage(Render(r))>>] : r \in SampleRecipes}

ResponsesOutcomes ==
    {Threw(e) : e \in ProviderErrors} \cup {Responded(r) : r \in SampleResponses}

TargetLanguages == LANGUAGE_NAMES \cup {"fr-FR"}

ServiceCalls ==
    {[fn |-> f, lang |-> "", prov |-> p] :
        f \in {"generateText", "talkWithSpecificTopic", "generateTextInline",
               "generateResponseSuggestions"},
        p \in ResponsesOutcomes}
    \cup {[fn |-> "generateTextChat", lang |-> "", prov |-> p] : p \in ChatOutcomes}
    \cup {[fn |-> f, lang |-> l, prov |-> p] :
        f \in {"translateText", "translateTextLegacy"},
        l \in TargetLanguages, p \in ChatOutcomes}

ServiceResult(c) ==
    IF c.fn = "generateText" THEN generateText(c.prov)
    ELSE IF c.fn = "talkWithSpecificTopic" THEN talkWithSpecificTopic(c.prov)
    ELSE IF c.fn = "generateTextInline" THEN generateTextInline(c.prov)
    ELSE IF c.fn = "generateTextChat" THEN generateTextChat(c.prov)
    ELSE IF c.fn = "translateText" THEN translateText(c.lang, c.prov)
    ELSE IF c.fn = "translateTextLegacy" THEN translateTextLegacy(c.lang, c.prov)
    ELSE generateResponseSuggestions(generateText(c.prov))

NoCall == [fn |-> "none", lang |-> "", prov |-> Threw(NoError)]

Invoke ==
    /\ spc = "ready"
    /\ result' = ServiceResult(call)
    /\ spc' = "done"
    /\ UNCHANGED call

svars == <<call, result, spc>>

(***************************************************************************)
(* The request objects the text generation services send to the provider.  *)
(* A model identifier is a text; an option is "undefined" or its value,    *)
(* written as in the source.                                               *)
(***************************************************************************)
ovars == <<options, outbound, opc>>

\* openaiConfig.gpt
openaiConfig ==
    [gpt |-> [model |-> <<"g", "p", "t", "-", "5", "-", "n", "a", "n", "o", "-",
                          "2", "0", "2", "5", "-", "0", "8", "-", "0", "7">>,
              temperature |-> "0.3"]]

ModelIds ==
    {<<"o", "1">>, <<"o", "1", "-", "m", "i", "n", "i">>, <<"o", "3">>,
     <<"g", "p", "t", "-", "5">>, <<"g", "p", "t", "-", "4", "o">>,
     <<"g", "p", "t", "-", "4", "o", "1">>, <<"g", "o", "1">>, <<"o">>}

\* const { model = openaiConfig.gpt.model, temperature = ..., topP = 1 } = options
WithDefaults(opts) ==
    [model |-> IF opts.hasModel THEN opts.model ELSE openaiConfig.gpt.model,
     temperature |-> IF opts.temperature = "undefined" THEN openaiConfig.gpt.temperature
                     ELSE opts.temperature,
     topP |-> IF opts.topP = "undefined" THEN "1" ELSE opts.topP]

\* model.startsWith('o1') || model.startsWith('o3') || model.startsWith('gpt-5')
isReasoningModel(model) ==
    \/ StartsWith(model, <<"o", "1">>)
    \/ StartsWith(model, <<"o", "3">>)
    \/ StartsWith(model, <<"g", "p", "t", "-", "5">>)

\* A request handed to the provider: the keys of the object, the values of the
\* keys of interest, and the warnings logged while it was built.
Outbound(keys, model, temperature, top_p, warnings) ==
    [issued |-> TRUE, keys |-> keys, model |-> model, temperature |-> temperature,
     top_p |-> top_p, warnings |-> warnings]

\* requestParams of the generateText that builds its Responses API request
\* from the options: temperature and top_p are added for other models only.
requestParams(opts) ==
    LET o == WithDefaults(opts)
        reasoning == isReasoningModel(o.model)
        warnings == reasoning /\ (o.temperature # "undefined" \/ o.topP # "undefined")
    IN  Outbound({"model", "input", "parallel_tool_calls", "store", "stream", "reasoning"}
                   \cup (IF ~reasoning /\ o.temperature # "undefined"
                         THEN {"temperature"} ELSE {})
                   \cup (IF ~reasoning /\ o.topP # "undefined" THEN {"top_p"} ELSE {}),
                 o.model,
                 IF reasoning THEN "undefined" ELSE o.temperature,
                 IF reasoning THEN "undefined" ELSE o.topP,
                 IF warnings THEN 1 ELSE 0)

\* The argument of openai.chat.completions.create of the generateText on chat
\* completions: every parameter is a key of the object literal.
chatCompletionParams(opts) ==
    LET o == WithDefaults(opts)
    IN  Outbound({"model", "messages", "temperature", "max_tokens", "top_p",
                  "frequency_penalty", "presence_penalty", "stop", "user"},
                 o.model, o.temperature, o.topP, 0)

\* requestParams of the current generateText: the configured model, the input
\* and store; the options carry no sampling parameter.
requestParamsCurrent(opts) ==
    Outbound({"model", "input", "store"}, openaiConfig.gpt.model, "undefined", "undefined", 0)

NoOptions == [hasModel |-> FALSE, model |-> <<>>, temperature |-> "undefined",
              topP |-> "undefined"]

TextGenerationOptions ==
    {[hasModel |-> FALSE, model |-> <<>>, temperature |-> t, topP |-> p] :
        t \in {"undefined", "0", "0.7"}, p \in {"undefined", "0.9", "1"}}
    \cup {[hasModel |-> TRUE, model |-> m, temperature |-> t, topP |-> p] :
        m \in ModelIds, t \in {"undefined", "0", "0.7"}, p \in {"undefined", "0.9", "1"}}

NoOutbound ==
    [responses |-> [issued |-> FALSE], chat |-> [issued |-> FALSE],
     current |-> [issued |-> FALSE]]

\* Each generateText builds its request from the options and sends it.
BuildRequests ==
    /\ opc = "ready"
    /\ outbound' = [responses |-> requestParams(options),
                    chat |-> chatCompletionParams(options),
                    current |-> requestParamsCurrent(options)]
    /\ opc' = "done"
    /\ UNCHANGED options

(***************************************************************************)
(* Usage: the token counts of a provider response and the usage object of  *)
(* the result each service function builds from them.                      *)
(***************************************************************************)
\* A token count of the provider: left out, null, or a number.
Omitted == [kind |-> "undefined", n |-> 0]
Null == [kind |-> "null", n |-> 0]
Tokens(n) == [kind |-> "number", n |-> n]

TokenValues == {Omitted, Null} \cup {Tokens(n) : n \in 0..MaxTokens}

\* input_tokens_details and output_tokens_details: left out, null, or an object.
NoDetails(kind) == [kind |-> kind, cached_tokens |-> Omitted, reasoning_tokens |-> Omitted]
InputTokensDetails(cached) ==
    [kind |-> "object", cached_tokens |-> cached, reasoning_tokens |-> Omitted]
OutputTokensDetails(reasoning) ==
    [kind |-> "object", cached_tokens |-> Omitted, reasoning_tokens |-> reasoning]

\* response.usage of the Responses API and completion.usage of chat completions.
NoUsage ==
    [shape |-> "none", kind |-> "undefined", input_tokens |-> Omitted,
     output_tokens |-> Omitted, total_tokens |-> Omitted,
     input_tokens_details |-> NoDetails("undefined"),
     output_tokens_details |-> NoDetails("undefined"),
     prompt_tokens |-> Omitted, completion_tokens |-> Omitted]

ResponseUsage(input, output, total, inputDetails, outputDetails) ==
    [NoUsage EXCEPT !.shape = "responses", !.kind = "object", !.input_tokens = input,
                    !.output_tokens = output, !.total_tokens = total,
                    !.input_tokens_details = inputDetails,
                    !.output_tokens_details = outputDetails]

CompletionUsage(prompt, completion, total) ==
    [NoUsage EXCEPT !.shape = "chat", !.kind = "object", !.prompt_tokens = prompt,
                    !.completion_tokens = completion, !.total_tokens = total]

ProviderUsages ==
    {[NoUsage EXCEPT !.shape = sh, !.kind = k] :
        sh \in {"responses", "chat"}, k \in {"undefined", "null"}}
    \cup {ResponseUsage(i, o, t, id, od) :
            i \in TokenValues, o \in TokenValues, t \in TokenValues,
            id \in {NoDetails("undefined")} \cup {InputTokensDetails(c) : c \in TokenValues},
            od \in {NoDetails("undefined")} \cup {OutputTokensDetails(r) : r \in TokenValues}}
    \cup {CompletionUsage(p, c, t) :
            p \in TokenValues, c \in TokenValues, t \in TokenValues}

\* Mutant: the token count is copied as it is.
OrZero_copied(v) == v

\* v || 0
OrZero(v) == IF v.kind # "number" \/ v.n = 0 THEN Tokens(0) ELSE v

\* v ?? 0
NullishZero(v) == IF v.kind \in {"undefined", "null"} THEN Tokens(0) ELSE v

\* x?.field
Chain(x, field) == IF x.kind # "object" THEN Omitted ELSE x[field]

\* x?.details?.field
ChainDetails(x, details, field) ==
    IF x.kind # "object" THEN Omitted ELSE Chain(x[details], field)

\* generateText of the Responses API: usage of the result
generateTextUsage(usage) ==
    [promptTokens |-> OrZero(Chain(usage, "input_tokens")),
     completionTokens |-> OrZero(Chain(usage, "output_tokens")),
     totalTokens |-> OrZero(Chain(usage, "total_tokens")),
     cachedTokens |-> OrZero(ChainDetails(usage, "input_tokens_details", "cached_tokens")),
     reasoningTokens |->
         OrZero(ChainDetails(usage, "output_tokens_details", "reasoning_tokens"))]

\* talkWithSpecificTopic: usage of the result
talkWithSpecificTopicUsage(usage) ==
    [promptTokens |-> OrZero(Chain(usage, "input_tokens")),
     completionTokens |-> OrZero(Chain(usage, "output_tokens")),
     totalTokens |-> OrZero(Chain(usage, "total_tokens")),
     cachedTokens |-> OrZero(ChainDetails(usage, "input_tokens_details", "cached_tokens")),
     reasoningTokens |->
         OrZero(ChainDetails(usage, "output_tokens_details", "reasoning_tokens"))]

\* generateText with the inline extraction loop: usage of the result
generateTextInlineUsage(usage) ==
    [promptTokens |-> OrZero(Chain(usage, "input_tokens")),
     completionTokens |-> OrZero(Chain(usage, "output_tokens")),
     totalTokens |-> OrZero(Chain(usage, "total_tokens")),
     cachedTokens |-> OrZero(ChainDetails(usage, "input_tokens_details", "cached_tokens")),
     reasoningTokens |->
         OrZero(ChainDetails(usage, "output_tokens_details", "reasoning_tokens"))]

\* generateText of chat completions: usage of the result
generateTextChatUsage(usage) ==
    [promptTokens |-> OrZero(Chain(usage, "prompt_tokens")),
     completionTokens |-> OrZero(Chain(usage, "completion_tokens")),
     totalTokens |-> OrZero(Chain(usage, "total_tokens"))]

\* translateText: usage of the result
translateTextUsage(usage) ==
    [promptTokens |-> NullishZero(Chain(usage, "prompt_tokens")),
     completionTokens |-> NullishZero(Chain(usage, "completion_tokens")),
     totalTokens |-> NullishZero(Chain(usage, "total_tokens"))]

\* translateText of translation.service.ts: usage of the result
translateTextLegacyUsage(usage) ==
    [promptTokens |-> OrZero(Chain(usage, "prompt_tokens")),
     completionTokens |-> OrZero(Chain(usage, "completion_tokens")),
     totalTokens |-> OrZero(Chain(usage, "total_tokens"))]

NoNormalized == [f \in {} |-> NoUsage]

\* Each service function that takes a response of the shape builds its result.
NormalizeUsage ==
    /\ upc = "ready"
    /\ normalized' =
          IF providerUsage.shape = "responses"
          THEN [f \in {"generateText", "talkWithSpecificTopic", "generateTextInline"} |->
                   IF f = "generateText" THEN generateTextUsage(providerUsage)
                   ELSE IF f = "talkWithSpecificTopic"
                   THEN talkWithSpecificTopicUsage(providerUsage)
                   ELSE generateTextInlineUsage(providerUsage)]
          ELSE [f \in {"generateTextChat", "translateText", "translateTextLegacy"} |->
                   IF f = "generateTextChat" THEN generateTextChatUsage(providerUsage)
                   ELSE IF f = "translateText" THEN translateTextUsage(providerUsage)
                   ELSE translateTextLegacyUsage(providerUsage)]
    /\ upc' = "done"
    /\ UNCHANGED providerUsage

\* const openai = new OpenAI({ apiKey, organization, timeout })
OpenAI ==
    [apiKey |-> "env.openai.apiKey", organization |-> "env.openai.orgId",
     timeout |-> 60000]

\* A request: its method, the segments of its path, whether its JSON body
\* parses and whether it exceeds the rate limit of the window.
NoHttpRequest == [method |-> "", path |-> <<>>, bodyParses |-> TRUE, overLimit |-> FALSE]

\* let redisClient: Redis | null = null
NoRedis == [id |-> 0]

\* A call of the redis module: the function, the client held and the number
\* of clients constructed before it, what it returned, and whether quit() was
\* called.
NoRedisCall ==
    [fn |-> "none", held |-> NoRedis, constructed |-> 0, returned |-> NoRedis,
     quit |-> FALSE, since |-> FALSE]

(***************************************************************************)
(* Speech to text: the upload middleware of the route, the format check of *)
(* the controller and the transcription service.                           *)
(***************************************************************************)
MAX_AUDIO_FILE_SIZE == 25 * 1024 * 1024

\* An uploaded part: its file name cut at the dots, its mimetype, its size.
NoFile == [present |-> FALSE, name |-> <<>>, mimetype |-> "", size |-> 0]
AudioFile(name, mimetype, size) ==
    [present |-> TRUE, name |-> name, mimetype |-> mimetype, size |-> size]

ToLowerCase(w) ==
    IF w = "MP3" THEN "mp3" ELSE IF w = "OGG" THEN "ogg" ELSE w

\* filename.split('.').pop()?.toLowerCase() is one of the seven extensions
isSupportedAudioFormat(name) ==
    /\ Len(name) > 0
    /\ ToLowerCase(name[Len(name)]) \in {"mp3", "mp4", "mpeg", "mpga", "m4a", "wav", "webm"}

\* fileFilter of the upload middleware
fileFilter(file) ==
    \/ file.mimetype \in {"audio/mpeg", "audio/mp3", "audio/mp4", "audio/wav",
                          "audio/webm", "audio/m4a", "audio/x-m4a", "video/mp4"}
    \/ file.mimetype \in {"audio/ogg"}     \* startsWith('audio/')

\* upload.single('audio'): the error it passes to next(), if any.
upload(file) ==
    IF ~file.present THEN NoError
    ELSE IF ~fileFilter(file)
    THEN GenericError("Invalid file type. Only audio files are allowed.")
    ELSE IF file.size > MAX_AUDIO_FILE_SIZE THEN GenericError("File too large")
    ELSE NoError

\* The transcription the provider resolves with: a string, or an object with text.
Transcription(kind, t) == [kind |-> kind, text |-> t]

transcribeAudio(p) ==
    IF p.err.kind # "none" THEN Failure(mapProviderError(p.err, "Failed to transcribe audio"))
    ELSE Success(p.resp.text, NoSuggestions)

\* transcribeAudioWithTimestamps: transcribeAudio with responseFormat 'verbose_json'
transcribeAudioWithTimestamps(p) == transcribeAudio(p)

\* The two routes that take an audio upload.
TranscribeEndpoints == {"transcribe", "transcribeDetailed"}

TranscriptionOutcomes ==
    {Threw(e) : e \in ProviderErrors}
    \cup {Responded(Transcription(k, t)) : k \in {"string", "json"}, t \in {<<>>, <<"a">>}}

(***************************************************************************)
(* Requests.  A body field is undefined, a value that is not a string, or  *)
(* a string, of which the model keeps the length and whether it is blank   *)
(* (nothing left after trim).                                              *)
(***************************************************************************)
MAX_TOPIC_LENGTH == 1000
MAX_INITIAL_MESSAGE_LENGTH == 2000
MAX_PROMPT_LENGTH == 5000
MAX_CONVERSATION_HISTORY_LENGTH == 10000
MAX_TEXT_LENGTH == 5000

Undefined == [kind |-> "undefined", len |-> 0, blank |-> TRUE]
NonString == [kind |-> "nonString", len |-> 0, blank |-> TRUE]
Str(n, blank) == [kind |-> "string", len |-> n, blank |-> blank]

FieldValues(max) ==
    {Undefined, NonString, Str(0, TRUE), Str(BlankLen, TRUE), Str(1, FALSE),
     Str(max, FALSE), Str(max + 1, FALSE), Str(max + 1, TRUE)}

NoLanguage == [kind |-> "undefined", code |-> ""]

LanguageValues ==
    {NoLanguage, [kind |-> "nonString", code |-> ""]}
    \cup {[kind |-> "string", code |-> c] : c \in TargetLanguages}

\* The count of an exercises request: undefined, or a JSON value.  A number
\* is whole + 1/2 when half is set, else whole; a string holds a numeral or
\* not (nan).
NoCount == [kind |-> "undefined", nan |-> FALSE, whole |-> 0, half |-> FALSE]
Num(whole, half) == [kind |-> "number", nan |-> FALSE, whole |-> whole, half |-> half]
Numeral(whole) == [kind |-> "string", nan |-> FALSE, whole |-> whole, half |-> FALSE]

CountValues ==
    {NoCount}
    \cup {Num(w, h) : w \in {0, 1, 2, 20, 21}, h \in BOOLEAN}
    \cup {Numeral(5), Numeral(21),
          [kind |-> "string", nan |-> TRUE, whole |-> 0, half |-> FALSE],
          [kind |-> "null", nan |-> FALSE, whole |-> 0, half |-> FALSE],
          [kind |-> "object", nan |-> TRUE, whole |-> 0, half |-> FALSE]}

NoDifficulty == "undefined"

Difficulties == {NoDifficulty, "beginner", "advanced", "expert"}

Files ==
    {NoFile}
    \cup {AudioFile(n, m, sz) :
            n \in {<<"clip", "mp3">>, <<"clip", "MP3">>, <<"clip", "ogg">>, <<"clip">>,
                   <<"mp3">>},
            m \in {"audio/mpeg", "audio/ogg", "text/plain"},
            sz \in {1, MAX_AUDIO_FILE_SIZE, MAX_AUDIO_FILE_SIZE + 1}}

Requests ==
    {[endpoint |-> "translate", a |-> t, b |-> Undefined, lang |-> l, file |-> NoFile,
           difficulty |-> NoDifficulty, count |-> NoCount] :
        t \in FieldValues(MAX_TEXT_LENGTH), l \in LanguageValues}
    \cup {[endpoint |-> "generateText", a |-> t, b |-> Undefined, lang |-> NoLanguage,
           file |-> NoFile,
           difficulty |-> NoDifficulty, count |-> NoCount] :
        t \in FieldValues(MAX_PROMPT_LENGTH)}
    \cup {[endpoint |-> "talkWithSpecificTopic", a |-> t, b |-> m, lang |-> NoLanguage,
           file |-> NoFile,
           difficulty |-> NoDifficulty, count |-> NoCount] :
        t \in FieldValues(MAX_TOPIC_LENGTH), m \in FieldValues(MAX_INITIAL_MESSAGE_LENGTH)}
    \cup {[endpoint |-> "generateSuggestions", a |-> t, b |-> h, lang |-> NoLanguage,
           file |-> NoFile,
           difficulty |-> NoDifficulty, count |-> NoCount] :
        t \in FieldValues(MAX_TOPIC_LENGTH),
        h \in FieldValues(MAX_CONVERSATION_HISTORY_LENGTH)}
    \cup {[endpoint |-> e, a |-> Undefined, b |-> Undefined, lang |-> NoLanguage,
           file |-> f, difficulty |-> NoDifficulty, count |-> NoCount] :
        e \in TranscribeEndpoints, f \in Files}
    \cup {[endpoint |-> "generateExercises", a |-> e, b |-> Undefined, lang |-> NoLanguage,
           file |-> NoFile, difficulty |-> d, count |-> c] :
        e \in {Undefined, Str(1, FALSE)}, d \in Difficulties, c \in CountValues}

(***************************************************************************)
(* Controllers: the validation each one makes before it calls its service. *)
(***************************************************************************)
ValidationError(msg, nums) == AppErrorN("VALIDATION_ERROR", msg, BAD_REQUEST, nums)

\* !x || typeof x !== 'string'
Missing(f) == f.kind # "string" \/ f.len = 0

TooLong(what, max) ==
    ValidationError(<<what, " is too long. Maximum ", "characters allowed.">>, {max})

\* TranslationController.validateRequest
validateRequest(text, targetLanguage) ==
    IF text.kind # "string" \/ text.blank
    THEN ValidationError(<<"Text is required and must be a non-empty string">>, {})
    ELSE IF text.len > MAX_TEXT_LENGTH THEN TooLong("Text", MAX_TEXT_LENGTH)
    ELSE IF targetLanguage.kind # "string"
    THEN ValidationError(<<"Target language must be a string">>, {})
    ELSE IF targetLanguage.code \notin SUPPORTED_LANGUAGES_SET
    THEN ValidationError(<<"Unsupported target language: ", targetLanguage.code,
                           ". Supported languages are: ">> \o SUPPORTED_LANGUAGES_STRING, {})
    ELSE NoError

\* req.body.targetLanguage === undefined ? DEFAULT_TARGET_LANGUAGE : req.body.targetLanguage
bodyForValidation(body) ==
    IF body.lang.kind = "undefined"
    THEN [kind |-> "string", code |-> DEFAULT_TARGET_LANGUAGE]
    ELSE body.lang

validateTranslate(body) == validateRequest(body.a, bodyForValidation(body))

\* Mutant: a prompt of exactly the ceiling length is refused.
validateGenerateText_ceilingExcluded(body) ==
    IF Missing(body.a)
    THEN ValidationError(<<"Prompt is required and must be a string">>, {})
    ELSE IF body.a.len >= MAX_PROMPT_LENGTH THEN TooLong("Prompt", MAX_PROMPT_LENGTH)
    ELSE NoError

validateGenerateText(body) ==
    IF Missing(body.a)
    THEN ValidationError(<<"Prompt is required and must be a string">>, {})
    ELSE IF body.a.len > MAX_PROMPT_LENGTH THEN TooLong("Prompt", MAX_PROMPT_LENGTH)
    ELSE NoError

validateTalkWithSpecificTopic(body) ==
    IF Missing(body.a)
    THEN ValidationError(<<"Topic is required and must be a string">>, {})
    ELSE IF Missing(body.b)
    THEN ValidationError(<<"Initial message is required and must be a string">>, {})
    ELSE IF body.a.len > MAX_TOPIC_LENGTH THEN TooLong("Topic", MAX_TOPIC_LENGTH)
    ELSE IF body.b.len > MAX_INITIAL_MESSAGE_LENGTH
    THEN TooLong("Initial message", MAX_INITIAL_MESSAGE_LENGTH)
    ELSE NoError

\* Mutant: the conversation history is not validated.
validateGenerateSuggestions_topicOnly(body) ==
    IF Missing(body.a)
    THEN ValidationError(<<"Topic is required and must be a string">>, {})
    ELSE IF body.a.len > MAX_TOPIC_LENGTH THEN TooLong("Topic", MAX_TOPIC_LENGTH)
    ELSE NoError

validateGenerateSuggestions(body) ==
    IF Missing(body.a)
    THEN ValidationError(<<"Topic is required and must be a string">>, {})
    ELSE IF Missing(body.b)
    THEN ValidationError(<<"Conversation history is required and must be a string">>, {})
    ELSE IF body.a.len > MAX_TOPIC_LENGTH THEN TooLong("Topic", MAX_TOPIC_LENGTH)
    ELSE IF body.b.len > MAX_CONVERSATION_HISTORY_LENGTH
    THEN TooLong("Conversation history", MAX_CONVERSATION_HISTORY_LENGTH)
    ELSE NoError

\* TranscriptionController.transcribeAudio, up to the call of the service
validateTranscribe(r) ==
    IF ~r.file.present
    THEN AppError("AUDIO_FILE_MISSING", <<"No audio file provided">>, BAD_REQUEST)
    ELSE IF ~isSupportedAudioFormat(r.file.name)
    THEN AppError("INVALID_AUDIO_FORMAT",
                  <<"Unsupported audio format. Supported formats: ",
                    "mp3, mp4, mpeg, mpga, m4a, wav, webm">>, BAD_REQUEST)
    ELSE IF r.file.size > MAX_AUDIO_FILE_SIZE
    THEN AppErrorN("AUDIO_FILE_TOO_LARGE", <<"File size exceeds maximum limit of ", "MB">>,
                   BAD_REQUEST, {MAX_AUDIO_FILE_SIZE \div (1024 * 1024)})
    ELSE NoError

\* count < n and count > n of the source for a whole number n: the count is
\* converted to a number, and a comparison with NaN is false.
LessThan(c, n) == ~c.nan /\ c.whole < n

GreaterThan(c, n) == ~c.nan /\ (c.whole > n \/ (c.whole = n /\ c.half))

\* const { errorType, difficulty = 'intermediate', count = 5, options } = req.body
exercisesBody(r) ==
    [errorType |-> r.a,
     difficulty |-> IF r.difficulty = "undefined" THEN "intermediate" ELSE r.difficulty,
     count |-> IF r.count.kind = "undefined" THEN Num(5, FALSE) ELSE r.count]

\* TextGenerationController.generateExercises, up to the call of the service
validateGenerateExercises(r) ==
    IF Missing(exercisesBody(r).errorType)
    THEN ValidationError(<<"Error type is required and must be a string">>, {})
    ELSE IF exercisesBody(r).difficulty \notin {"beginner", "intermediate", "advanced"}
    THEN ValidationError(<<"Difficulty must be one of: ",
                           "beginner", ", ", "intermediate", ", ", "advanced">>, {})
    ELSE IF LessThan(exercisesBody(r).count, 1) \/ GreaterThan(exercisesBody(r).count, 20)
    THEN ValidationError(<<"Count must be between ", " and ">>, {1, 20})
    ELSE NoError

\* TranscriptionController.transcribeWithTimestamps, up to the call of the service
validateTranscribeWithTimestamps(r) ==
    IF ~r.file.present
    THEN AppError("AUDIO_FILE_MISSING", <<"No audio file provided">>, BAD_REQUEST)
    ELSE IF ~isSupportedAudioFormat(r.file.name)
    THEN AppError("INVALID_AUDIO_FORMAT",
                  <<"Unsupported audio format. Supported formats: ",
                    "mp3, mp4, mpeg, mpga, m4a, wav, webm">>, BAD_REQUEST)
    ELSE IF r.file.size > MAX_AUDIO_FILE_SIZE
    THEN AppErrorN("AUDIO_FILE_TOO_LARGE", <<"File size exceeds maximum limit of ", "MB">>,
                   BAD_REQUEST, {MAX_AUDIO_FILE_SIZE \div (1024 * 1024)})
    ELSE NoError

\* The middleware the route runs before its controller.
RouteMiddleware(r) ==
    IF r.endpoint \in TranscribeEndpoints THEN upload(r.file) ELSE NoError

\* The validation of the controller the route of the request leads to.
ControllerValidation(r) ==
    IF r.endpoint = "transcribe" THEN validateTranscribe(r)
    ELSE IF r.endpoint = "transcribeDetailed" THEN validateTranscribeWithTimestamps(r)
    ELSE IF r.endpoint = "generateExercises" THEN validateGenerateExercises(r)
    ELSE IF r.endpoint = "translate" THEN validateTranslate(r)
    ELSE IF r.endpoint = "generateText" THEN validateGenerateText(r)
    ELSE IF r.endpoint = "talkWithSpecificTopic" THEN validateTalkWithSpecificTopic(r)
    ELSE validateGenerateSuggestions(r)

\* What the service checks itself before it calls the provider.
ServicePrecondition(r) ==
    IF r.endpoint = "translate" THEN translateTextPre(bodyForValidation(r).code) ELSE NoError

\* What the service returns or throws once the provider call has ended.
ServiceOutcome(r, p) ==
    IF r.endpoint = "transcribe" THEN transcribeAudio(p)
    ELSE IF r.endpoint = "transcribeDetailed" THEN transcribeAudioWithTimestamps(p)
    ELSE IF r.endpoint = "generateExercises" THEN generateTextChat(p)
    ELSE IF r.endpoint = "translate" THEN translateTextPost(bodyForValidation(r).code, p)
    ELSE IF r.endpoint = "generateText" THEN generateText(p)
    ELSE IF r.endpoint = "talkWithSpecificTopic" THEN talkWithSpecificTopic(p)
    ELSE generateResponseSuggestions(generateText(p))

ProviderOutcomes(r) ==
    IF r.endpoint \in TranscribeEndpoints THEN TranscriptionOutcomes
    ELSE IF r.endpoint \in {"translate", "generateExercises"} THEN ChatOutcomes
    ELSE ResponsesOutcomes

\* The logger.error entries of the catch block of a service for the error it
\* caught: one, and one more with the details of a provider API error.
catchErrorLogs(err) == IF err.kind = "APIError" THEN 2 ELSE 1

\* The logger.error entries of generateResponseSuggestions: those of its
\* generateText call, one for a failed parse, one of its outer catch.
suggestionsErrorLogs(p) ==
    IF ~generateText(p).ok THEN catchErrorLogs(p.err) + 1
    ELSE IF StrictTier(generateText(p).text).ok THEN 0
    ELSE IF Len(FallbackLines(generateText(p).text)) >= 3 THEN 1
    ELSE 2

\* The logger.error entries a service writes once its provider call has ended.
ServiceErrorLogs(r, p) ==
    IF r.endpoint = "generateSuggestions" THEN suggestionsErrorLogs(p)
    ELSE IF ~ServiceOutcome(r, p).ok THEN catchErrorLogs(p.err)
    ELSE 0

\* Mutant: a call that rejected is sent again.
AfterProviderCall_retryOnError(p) ==
    IF p.err.kind # "none" THEN "service" ELSE "settled"

\* Each service awaits its one provider call in straight-line code inside a
\* try block: resolved or rejected, control goes on to the rest of the service
\* or to its catch block, never back to the call.
AfterProviderCall(p) == "settled"

(***************************************************************************)
(* Responses.  keys are the keys of the JSON body, errorKeys those of its   *)
(* error object: res.json leaves out a key whose value is undefined.        *)
(***************************************************************************)
NoData == Failure(NoError)

NoReply ==
    [status |-> 0, success |-> FALSE, code |-> "", message |-> <<>>, nums |-> {},
     text |-> <<>>, suggestions |-> <<>>, data |-> NoData, keys |-> {}, errorKeys |-> {}]

\* ResponseHandler.success(res, result, message): every controller passes a
\* result and a message.
ResponseHandlerSuccess(data) ==
    [status |-> OK, success |-> TRUE, code |-> "", message |-> <<>>, nums |-> {},
     text |-> data.text, suggestions |-> data.suggestions, data |-> data,
     keys |-> {"success", "data", "message", "timestamp"}, errorKeys |-> {}]

\* ResponseHandler.error(res, code, message, statusCode): no error of the
\* model carries details.
ResponseHandlerError(code, message, nums, statusCode) ==
    [status |-> statusCode, success |-> FALSE, code |-> code, message |-> message,
     nums |-> nums, text |-> <<>>, suggestions |-> <<>>, data |-> NoData,
     keys |-> {"success", "error", "timestamp"}, errorKeys |-> {"code", "message"}]

\* Mutant: the error envelope carries a data key as well.
errorHandler_withData(err) ==
    [ResponseHandlerError(err.code, err.msg, err.nums,
                          IF err.kind = "AppError" THEN err.status ELSE INTERNAL_SERVER_ERROR)
     EXCEPT !.keys = {"success", "data", "error", "timestamp"}]

errorHandler(err) ==
    IF err.kind = "AppError"
    THEN ResponseHandlerError(err.code, err.msg, err.nums, err.status)
    ELSE ResponseHandlerError("INTERNAL_SERVER_ERROR", <<"An unexpected error occurred">>,
                              {}, INTERNAL_SERVER_ERROR)

(***************************************************************************)
(* Spec: one request at a time through route, controller, service and      *)
(* error handler.                                                          *)
(***************************************************************************)
NoRequest ==
    [endpoint |-> "none", a |-> Undefined, b |-> Undefined, lang |-> NoLanguage,
     file |-> NoFile, difficulty |-> NoDifficulty, count |-> NoCount]

pvars == <<pc, req, prov, outcome, reply, calls, errorLogs, responses, events>>

\* A request arrives and its route is entered.
Receive ==
    /\ pc = "idle"
    /\ \E r \in Requests : req' = r
    /\ pc' = "routed"
    /\ prov' = Threw(NoError)
    /\ outcome' = Failure(NoError)
    /\ reply' = NoReply
    /\ calls' = 0
    /\ errorLogs' = 0
    /\ responses' = 0
    /\ events' = <<>>

\* The middleware of the route runs, then the route hands over to its controller;
\* an error of the middleware is passed to next().
Route ==
    /\ pc = "routed"
    /\ IF RouteMiddleware(req).kind # "none"
       THEN /\ outcome' = Failure(RouteMiddleware(req))
            /\ pc' = "failed"
       ELSE /\ pc' = "validating"
            /\ UNCHANGED outcome
    /\ UNCHANGED <<req, prov, reply, calls, errorLogs, responses, events>>

\* The controller validates the body; a failure is thrown and passed to next().
Validate ==
    /\ pc = "validating"
    /\ events' = Append(events, "validate")
    /\ IF ControllerValidation(req).kind # "none"
       THEN /\ outcome' = Failure(ControllerValidation(req))
            /\ pc' = "failed"
       ELSE /\ pc' = "service"
            /\ UNCHANGED outcome
    /\ UNCHANGED <<req, prov, reply, calls, errorLogs, responses>>

\* The service is entered and sends its request to the provider.
CallProvider ==
    /\ pc = "service"
    /\ IF ServicePrecondition(req).kind # "none"
       THEN /\ outcome' = Failure(ServicePrecondition(req))
            /\ errorLogs' = errorLogs + catchErrorLogs(ServicePrecondition(req))
            /\ pc' = "failed"
            /\ UNCHANGED <<calls, events>>
       ELSE /\ calls' = calls + 1
            /\ events' = Append(events, "call")
            /\ pc' = "awaiting"
            /\ UNCHANGED <<outcome, errorLogs>>
    /\ UNCHANGED <<req, prov, reply, responses>>

\* The awaited provider call ends: it resolves or rejects.
ProviderSettles ==
    /\ pc = "awaiting"
    /\ \E p \in ProviderOutcomes(req) : /\ prov' = p
                                        /\ pc' = AfterProviderCall(p)
    /\ UNCHANGED <<req, outcome, reply, calls, errorLogs, responses, events>>

\* The rest of the service: normalization and recovery, or its catch block.
ServiceCompletes ==
    /\ pc = "settled"
    /\ outcome' = ServiceOutcome(req, prov)
    /\ events' = Append(events, "normalize")
    /\ errorLogs' = errorLogs + ServiceErrorLogs(req, prov)
    /\ pc' = IF ServiceOutcome(req, prov).ok THEN "succeeded" ELSE "failed"
    /\ UNCHANGED <<req, prov, reply, calls, responses>>

\* ResponseHandler.success(res, result, ...)
SendSuccess ==
    /\ pc = "succeeded"
    /\ reply' = ResponseHandlerSuccess(outcome)
    /\ responses' = responses + 1
    /\ events' = Append(events, "respond")
    /\ pc' = "answered"
    /\ UNCHANGED <<req, prov, outcome, calls, errorLogs>>

\* next(error) reaches errorHandler, which writes its log entry and responds.
HandleError ==
    /\ pc = "failed"
    /\ errorLogs' = errorLogs + 1
    /\ reply' = errorHandler(outcome.err)
    /\ responses' = responses + 1
    /\ events' = Append(events, "respond")
    /\ pc' = "answered"
    /\ UNCHANGED <<req, prov, outcome, calls>>

\* The handler returns; nothing of the request is kept.
Close ==
    /\ pc = "answered"
    /\ pc' = "idle"
    /\ req' = NoRequest
    /\ prov' = Threw(NoError)
    /\ outcome' = Failure(NoError)
    /\ reply' = NoReply
    /\ calls' = 0
    /\ errorLogs' = 0
    /\ responses' = 0
    /\ events' = <<>>

uvars == <<providerUsage, normalized, upc>>

cvars == <<openai, inflight, frames, sent, delivered, entered, settled>>

hvars == <<httpReq, handler, httpReply, hpc>>

lvars ==
    <<boot, database, dbConnected, dbFailed, redisFailed, redisClient, made, warned,
      listening, exited, exitCode, exitedBy, shutdowns>>

kvars == <<closers, lastCall, sinceClose>>

vars == <<rvars, xvars, svars, pvars, ovars, uvars, cvars, hvars, lvars, kvars>>

\* The server waits for a request.
Init ==
    /\ pc = "idle"
    /\ req = NoRequest
    /\ prov = Threw(NoError)
    /\ outcome = Failure(NoError)
    /\ reply = NoReply
    /\ calls = 0
    /\ errorLogs = 0
    /\ responses = 0
    /\ events = <<>>
    /\ options = NoOptions
    /\ outbound = NoOutbound
    /\ opc = "off"
    /\ recipe = [kind |-> "none", arr |-> <<>>, wrap |-> NoWrapping, err |-> NoError]
    /\ modelReply = Threw(NoError)
    /\ recovered = Failure(NoError)
    /\ rpc = "off"
    /\ response = NoResponse
    /\ extracted = NoExtraction
    /\ xpc = "off"
    /\ call = NoCall
    /\ result = Failure(NoError)
    /\ spc = "off"
    /\ providerUsage = NoUsage
    /\ normalized = NoNormalized
    /\ upc = "off"
    /\ openai = OpenAI
    /\ inflight = <<>>
    /\ frames = <<>>
    /\ sent = <<>>
    /\ delivered = <<>>
    /\ entered = <<>>
    /\ settled = <<>>
    /\ httpReq = NoHttpRequest
    /\ handler = "none"
    /\ httpReply = NoReply
    /\ hpc = "off"
    /\ boot = "off"
    /\ database = "disconnected"
    /\ dbConnected = FALSE
    /\ dbFailed = FALSE
    /\ redisFailed = FALSE
    /\ redisClient = NoRedis
    /\ made = 0
    /\ warned = 0
    /\ listening = FALSE
    /\ exited = FALSE
    /\ exitCode = 0
    /\ exitedBy = "none"
    /\ shutdowns = <<>>
    /\ closers = <<>>
    /\ lastCall = NoRedisCall
    /\ sinceClose = FALSE

Next ==
    \/ Receive /\ UNCHANGED <<rvars, xvars, svars, ovars, uvars, cvars, hvars, lvars, kvars>>
    \/ Route /\ UNCHANGED <<rvars, xvars, svars, ovars, uvars, cvars, hvars, lvars, kvars>>
    \/ Validate /\ UNCHANGED <<rvars, xvars, svars, ovars, uvars, cvars, hvars, lvars, kvars>>
    \/ CallProvider /\ UNCHANGED <<rvars, xvars, svars, ovars, uvars, cvars, hvars, lvars, kvars>>
    \/ ProviderSettles /\ UNCHANGED <<rvars, xvars, svars, ovars, uvars, cvars, hvars, lvars, kvars>>
    \/ ServiceCompletes /\ UNCHANGED <<rvars, xvars, svars, ovars, uvars, cvars, hvars, lvars, kvars>>
    \/ SendSuccess /\ UNCHANGED <<rvars, xvars, svars, ovars, uvars, cvars, hvars, lvars, kvars>>
    \/ HandleError /\ UNCHANGED <<rvars, xvars, svars, ovars, uvars, cvars, hvars, lvars, kvars>>
    \/ Close /\ UNCHANGED <<rvars, xvars, svars, ovars, uvars, cvars, hvars, lvars, kvars>>

Spec == Init /\ [][Next]_vars

\* Any bounded response of the Responses API is about to be normalized.
InitExtract ==
    /\ response \in ResponseOutputs
    /\ extracted = NoExtraction
    /\ xpc = "ready"
    /\ recipe = [kind |-> "none", arr |-> <<>>, wrap |-> NoWrapping, err |-> NoError]
    /\ modelReply = Threw(NoError)
    /\ recovered = Failure(NoError)
    /\ rpc = "off"
    /\ call = NoCall
    /\ result = Failure(NoError)
    /\ spc = "off"
    /\ pc = "off"
    /\ req = NoRequest
    /\ prov = Threw(NoError)
    /\ outcome = Failure(NoError)
    /\ reply = NoReply
    /\ calls = 0
    /\ errorLogs = 0
    /\ responses = 0
    /\ events = <<>>
    /\ options = NoOptions
    /\ outbound = NoOutbound
    /\ opc = "off"
    /\ providerUsage = NoUsage
    /\ normalized = NoNormalized
    /\ upc = "off"
    /\ openai = OpenAI
    /\ inflight = <<>>
    /\ frames = <<>>
    /\ sent = <<>>
    /\ delivered = <<>>
    /\ entered = <<>>
    /\ settled = <<>>
    /\ httpReq = NoHttpRequest
    /\ handler = "none"
    /\ httpReply = NoReply
    /\ hpc = "off"
    /\ boot = "off"
    /\ database = "disconnected"
    /\ dbConnected = FALSE
    /\ dbFailed = FALSE
    /\ redisFailed = FALSE
    /\ redisClient = NoRedis
    /\ made = 0
    /\ warned = 0
    /\ listening = FALSE
    /\ exited = FALSE
    /\ exitCode = 0
    /\ exitedBy = "none"
    /\ shutdowns = <<>>
    /\ closers = <<>>
    /\ lastCall = NoRedisCall
    /\ sinceClose = FALSE

NextExtract == Normalize /\ UNCHANGED <<rvars, svars, pvars, ovars, uvars, cvars, hvars, lvars, kvars>>

SpecExtract == InitExtract /\ [][NextExtract]_vars

\* Any reply of the model to the suggestions prompt is about to be recovered.
InitRecovery ==
    /\ recipe \in Recipes
    /\ modelReply = ProviderReply(recipe)
    /\ recovered = Failure(NoError)
    /\ rpc = "ready"
    /\ response = NoResponse
    /\ extracted = NoExtraction
    /\ xpc = "off"
    /\ call = NoCall
    /\ result = Failure(NoError)
    /\ spc = "off"
    /\ pc = "off"
    /\ req = NoRequest
    /\ prov = Threw(NoError)
    /\ outcome = Failure(NoError)
    /\ reply = NoReply
    /\ calls = 0
    /\ errorLogs = 0
    /\ responses = 0
    /\ events = <<>>
    /\ options = NoOptions
    /\ outbound = NoOutbound
    /\ opc = "off"
    /\ providerUsage = NoUsage
    /\ normalized = NoNormalized
    /\ upc = "off"
    /\ openai = OpenAI
    /\ inflight = <<>>
    /\ frames = <<>>
    /\ sent = <<>>
    /\ delivered = <<>>
    /\ entered = <<>>
    /\ settled = <<>>
    /\ httpReq = NoHttpRequest
    /\ handler = "none"
    /\ httpReply = NoReply
    /\ hpc = "off"
    /\ boot = "off"
    /\ database = "disconnected"
    /\ dbConnected = FALSE
    /\ dbFailed = FALSE
    /\ redisFailed = FALSE
    /\ redisClient = NoRedis
    /\ made = 0
    /\ warned = 0
    /\ listening = FALSE
    /\ exited = FALSE
    /\ exitCode = 0
    /\ exitedBy = "none"
    /\ shutdowns = <<>>
    /\ closers = <<>>
    /\ lastCall = NoRedisCall
    /\ sinceClose = FALSE

NextRecovery == Recover /\ UNCHANGED <<xvars, svars, pvars, ovars, uvars, cvars, hvars, lvars, kvars>>

SpecRecovery == InitRecovery /\ [][NextRecovery]_vars

\* Any service function is about to be called.
InitService ==
    /\ call \in ServiceCalls
    /\ result = Failure(NoError)
    /\ spc = "ready"
    /\ recipe = [kind |-> "none", arr |-> <<>>, wrap |-> NoWrapping, err |-> NoError]
    /\ modelReply = Threw(NoError)
    /\ recovered = Failure(NoError)
    /\ rpc = "off"
    /\ response = NoResponse
    /\ extracted = NoExtraction
    /\ xpc = "off"
    /\ pc = "off"
    /\ req = NoRequest
    /\ prov = Threw(NoError)
    /\ outcome = Failure(NoError)
    /\ reply = NoReply
    /\ calls = 0
    /\ errorLogs = 0
    /\ responses = 0
    /\ events = <<>>
    /\ options = NoOptions
    /\ outbound = NoOutbound
    /\ opc = "off"
    /\ providerUsage = NoUsage
    /\ normalized = NoNormalized
    /\ upc = "off"
    /\ openai = OpenAI
    /\ inflight = <<>>
    /\ frames = <<>>
    /\ sent = <<>>
    /\ delivered = <<>>
    /\ entered = <<>>
    /\ settled = <<>>
    /\ httpReq = NoHttpRequest
    /\ handler = "none"
    /\ httpReply = NoReply
    /\ hpc = "off"
    /\ boot = "off"
    /\ database = "disconnected"
    /\ dbConnected = FALSE
    /\ dbFailed = FALSE
    /\ redisFailed = FALSE
    /\ redisClient = NoRedis
    /\ made = 0
    /\ warned = 0
    /\ listening = FALSE
    /\ exited = FALSE
    /\ exitCode = 0
    /\ exitedBy = "none"
    /\ shutdowns = <<>>
    /\ closers = <<>>
    /\ lastCall = NoRedisCall
    /\ sinceClose = FALSE

NextService == Invoke /\ UNCHANGED <<rvars, xvars, pvars, ovars, uvars, cvars, hvars, lvars, kvars>>

SpecService == InitService /\ [][NextService]_vars

\* Any options of the model are about to be turned into provider requests.
InitParams ==
    /\ options \in TextGenerationOptions
    /\ outbound = NoOutbound
    /\ opc = "ready"
    /\ recipe = [kind |-> "none", arr |-> <<>>, wrap |-> NoWrapping, err |-> NoError]
    /\ modelReply = Threw(NoError)
    /\ recovered = Failure(NoError)
    /\ rpc = "off"
    /\ response = NoResponse
    /\ extracted = NoExtraction
    /\ xpc = "off"
    /\ call = NoCall
    /\ result = Failure(NoError)
    /\ spc = "off"
    /\ pc = "off"
    /\ req = NoRequest
    /\ prov = Threw(NoError)
    /\ outcome = Failure(NoError)
    /\ reply = NoReply
    /\ calls = 0
    /\ errorLogs = 0
    /\ responses = 0
    /\ events = <<>>
    /\ providerUsage = NoUsage
    /\ normalized = NoNormalized
    /\ upc = "off"
    /\ openai = OpenAI
    /\ inflight = <<>>
    /\ frames = <<>>
    /\ sent = <<>>
    /\ delivered = <<>>
    /\ entered = <<>>
    /\ settled = <<>>
    /\ httpReq = NoHttpRequest
    /\ handler = "none"
    /\ httpReply = NoReply
    /\ hpc = "off"
    /\ boot = "off"
    /\ database = "disconnected"
    /\ dbConnected = FALSE
    /\ dbFailed = FALSE
    /\ redisFailed = FALSE
    /\ redisClient = NoRedis
    /\ made = 0
    /\ warned = 0
    /\ listening = FALSE
    /\ exited = FALSE
    /\ exitCode = 0
    /\ exitedBy = "none"
    /\ shutdowns = <<>>
    /\ closers = <<>>
    /\ lastCall = NoRedisCall
    /\ sinceClose = FALSE

NextParams == BuildRequests /\ UNCHANGED <<rvars, xvars, svars, pvars, uvars, cvars, hvars, lvars, kvars>>

SpecParams == InitParams /\ [][NextParams]_vars

(***************************************************************************)
(* SpecUsage: the usage object of any provider response is normalized.     *)
(***************************************************************************)
InitUsage ==
    /\ options = NoOptions
    /\ outbound = NoOutbound
    /\ opc = "off"
    /\ recipe = [kind |-> "none", arr |-> <<>>, wrap |-> NoWrapping, err |-> NoError]
    /\ modelReply = Threw(NoError)
    /\ recovered = Failure(NoError)
    /\ rpc = "off"
    /\ response = NoResponse
    /\ extracted = NoExtraction
    /\ xpc = "off"
    /\ call = NoCall
    /\ result = Failure(NoError)
    /\ spc = "off"
    /\ pc = "off"
    /\ req = NoRequest
    /\ prov = Threw(NoError)
    /\ outcome = Failure(NoError)
    /\ reply = NoReply
    /\ calls = 0
    /\ errorLogs = 0
    /\ responses = 0
    /\ events = <<>>
    /\ providerUsage \in ProviderUsages
    /\ normalized = NoNormalized
    /\ upc = "ready"
    /\ openai = OpenAI
    /\ inflight = <<>>
    /\ frames = <<>>
    /\ sent = <<>>
    /\ delivered = <<>>
    /\ entered = <<>>
    /\ settled = <<>>
    /\ httpReq = NoHttpRequest
    /\ handler = "none"
    /\ httpReply = NoReply
    /\ hpc = "off"
    /\ boot = "off"
    /\ database = "disconnected"
    /\ dbConnected = FALSE
    /\ dbFailed = FALSE
    /\ redisFailed = FALSE
    /\ redisClient = NoRedis
    /\ made = 0
    /\ warned = 0
    /\ listening = FALSE
    /\ exited = FALSE
    /\ exitCode = 0
    /\ exitedBy = "none"
    /\ shutdowns = <<>>
    /\ closers = <<>>
    /\ lastCall = NoRedisCall
    /\ sinceClose = FALSE

NextUsage == NormalizeUsage /\ UNCHANGED <<rvars, xvars, svars, pvars, ovars, cvars, hvars, lvars, kvars>>

SpecUsage == InitUsage /\ [][NextUsage]_vars

(***************************************************************************)
(* SpecConcurrent: several suggestion requests in flight at once.  Each    *)
(* activation of the handler runs to its await, the provider calls resolve *)
(* in any order, and each activation resumes with the reply of its call.   *)
(***************************************************************************)
Clients == 1..MaxInFlight

\* Mutant: the locals of the handler are kept in one place for all requests.
Frame_shared(i) == 1

\* The activation of the handler for the request of client i has its own
\* req, res and locals.
Frame(i) == i

NoFlight == [at |-> "idle", req |-> NoRequest, prov |-> Threw(NoError)]
NoFrame == [req |-> NoRequest, res |-> 0]
NoPrompt == [topic |-> Undefined, conversationHistory |-> Undefined, store |-> TRUE]

\* generateText(prompt, { ...options, store: false }) of generateResponseSuggestions
SuggestionsPrompt(topic, conversationHistory) ==
    [topic |-> topic, conversationHistory |-> conversationHistory, store |-> FALSE]

InFlightRequests ==
    {[NoRequest EXCEPT !.endpoint = "generateSuggestions", !.a = t, !.b = Str(1, FALSE)] :
        t \in {Undefined, Str(1, FALSE), Str(MAX_TOPIC_LENGTH, FALSE)}}

InFlightOutcomes ==
    {Threw(APIErrorOf(429)),
     ProviderReply([kind |-> "suggestions", wrap |-> NoWrapping, err |-> NoError,
                    arr |-> <<JStr(<<"a">>), JStr(<<"a">>), JStr(<<"a">>)>>]),
     ProviderReply([kind |-> "suggestions", wrap |-> NoWrapping, err |-> NoError,
                    arr |-> <<JStr(<<"b">>), JStr(<<"b">>), JStr(<<"b">>)>>])}

\* The request of client i arrives: the controller validates it and either
\* answers with the error or calls the service, which awaits the provider.
Enter(i) ==
    /\ inflight[i].at = "idle"
    /\ \E r \in InFlightRequests :
          LET err == ControllerValidation(r)
          IN  /\ frames' = [frames EXCEPT ![Frame(i)] = [req |-> r, res |-> i]]
              /\ IF err # NoError
                 THEN /\ delivered' = [delivered EXCEPT ![i] = errorHandler(err)]
                      /\ inflight' = [inflight EXCEPT ![i] = [NoFlight EXCEPT !.at = "done",
                                                                              !.req = r]]
                      /\ UNCHANGED sent
                 ELSE /\ sent' = [sent EXCEPT ![i] = SuggestionsPrompt(r.a, r.b)]
                      /\ inflight' = [inflight EXCEPT ![i] = [NoFlight EXCEPT !.at = "awaiting",
                                                                              !.req = r]]
                      /\ UNCHANGED delivered
    /\ entered' = Append(entered, i)
    /\ UNCHANGED <<openai, settled>>

\* The provider call made for client i resolves or rejects.
Resolve(i) ==
    /\ inflight[i].at = "awaiting"
    /\ \E p \in InFlightOutcomes :
          inflight' = [inflight EXCEPT ![i].at = "resolved", ![i].prov = p]
    /\ settled' = Append(settled, i)
    /\ UNCHANGED <<openai, frames, sent, delivered, entered>>

\* The activation that awaited the call resumes: the service recovers the
\* suggestions and the controller answers on its res, or passes the error on.
Resume(i) ==
    /\ inflight[i].at = "resolved"
    /\ LET frame == frames[Frame(i)]
           out == ServiceOutcome(frame.req, inflight[i].prov)
       IN  delivered' = [delivered EXCEPT ![frame.res] =
                            IF out.ok THEN ResponseHandlerSuccess(out)
                            ELSE errorHandler(out.err)]
    /\ inflight' = [inflight EXCEPT ![i].at = "done"]
    /\ UNCHANGED <<openai, frames, sent, entered, settled>>

InitConcurrent ==
    /\ options = NoOptions
    /\ outbound = NoOutbound
    /\ opc = "off"
    /\ recipe = [kind |-> "none", arr |-> <<>>, wrap |-> NoWrapping, err |-> NoError]
    /\ modelReply = Threw(NoError)
    /\ recovered = Failure(NoError)
    /\ rpc = "off"
    /\ response = NoResponse
    /\ extracted = NoExtraction
    /\ xpc = "off"
    /\ call = NoCall
    /\ result = Failure(NoError)
    /\ spc = "off"
    /\ pc = "off"
    /\ req = NoRequest
    /\ prov = Threw(NoError)
    /\ outcome = Failure(NoError)
    /\ reply = NoReply
    /\ calls = 0
    /\ errorLogs = 0
    /\ responses = 0
    /\ events = <<>>
    /\ providerUsage = NoUsage
    /\ normalized = NoNormalized
    /\ upc = "off"
    /\ openai = OpenAI
    /\ inflight = [i \in Clients |-> NoFlight]
    /\ frames = [i \in Clients |-> NoFrame]
    /\ sent = [i \in Clients |-> NoPrompt]
    /\ delivered = [i \in Clients |-> NoReply]
    /\ entered = <<>>
    /\ settled = <<>>
    /\ httpReq = NoHttpRequest
    /\ handler = "none"
    /\ httpReply = NoReply
    /\ hpc = "off"
    /\ boot = "off"
    /\ database = "disconnected"
    /\ dbConnected = FALSE
    /\ dbFailed = FALSE
    /\ redisFailed = FALSE
    /\ redisClient = NoRedis
    /\ made = 0
    /\ warned = 0
    /\ listening = FALSE
    /\ exited = FALSE
    /\ exitCode = 0
    /\ exitedBy = "none"
    /\ shutdowns = <<>>
    /\ closers = <<>>
    /\ lastCall = NoRedisCall
    /\ sinceClose = FALSE

NextConcurrent ==
    \/ (\E i \in Clients : Enter(i)) /\ UNCHANGED <<rvars, xvars, svars, pvars, ovars, uvars, hvars, lvars, kvars>>
    \/ (\E i \in Clients : Resolve(i)) /\ UNCHANGED <<rvars, xvars, svars, pvars, ovars, uvars, hvars, lvars, kvars>>
    \/ (\E i \in Clients : Resume(i)) /\ UNCHANGED <<rvars, xvars, svars, pvars, ovars, uvars, hvars, lvars, kvars>>

SpecConcurrent == InitConcurrent /\ [][NextConcurrent]_vars

(***************************************************************************)
(* SpecRouting: the middleware chain of createApp takes any request.       *)
(***************************************************************************)
\* env.apiPrefix, '/api' unless API_PREFIX is set
apiPrefix == <<"api">>

\* The routes of the practice router, below its mount path.
practiceRoutes ==
    {[method |-> "POST", path |-> <<"transcribe">>],
     [method |-> "POST", path |-> <<"transcribe", "detailed">>],
     [method |-> "GET", path |-> <<"transcribe", "formats">>],
     [method |-> "POST", path |-> <<"generate", "talk-with-topic">>],
     [method |-> "POST", path |-> <<"generate", "text">>],
     [method |-> "POST", path |-> <<"translate">>]}

\* app.use(path, router): the path of the request starts with the mount path
MountedAt(path, mount) ==
    /\ Len(path) >= Len(mount)
    /\ SubSeq(path, 1, Len(mount)) = mount

BelowMount(path, mount) == SubSeq(path, Len(mount) + 1, Len(path))

HttpRequests ==
    {[method |-> m, path |-> p, bodyParses |-> b, overLimit |-> l] :
        m \in {"GET", "POST", "PUT", "DELETE"},
        p \in {<<>>, <<"health">>, <<"health", "x">>, <<"version">>, <<"api">>,
               <<"api", "version">>, <<"api", "nonexistent">>, <<"api", "practice">>,
               <<"api", "practice", "unknown">>,
               <<"api", "practice", "transcribe">>,
               <<"api", "practice", "transcribe", "detailed">>,
               <<"api", "practice", "transcribe", "formats">>,
               <<"api", "practice", "generate", "talk-with-topic">>,
               <<"api", "practice", "generate", "text">>,
               <<"api", "practice", "translate">>},
        b \in BOOLEAN, l \in BOOLEAN}

Taken(by, answer) == [handler |-> by, reply |-> answer]

\* Mutant: the last middleware answers as an internal error.
notFoundHandler_internalError ==
    ResponseHandlerError("INTERNAL_SERVER_ERROR", <<"Route not found">>, {},
                         INTERNAL_SERVER_ERROR)

\* app.use((_req, res) => ResponseHandler.error(res, 'NOT_FOUND', 'Route not found', 404))
notFoundHandler ==
    ResponseHandlerError("NOT_FOUND", <<"Route not found">>, {}, NOT_FOUND)

\* The handler of globalRateLimiter for a request over the limit.
globalRateLimiter ==
    ResponseHandlerError("RATE_LIMIT_EXCEEDED",
                         <<"Too many requests, please try again later">>, {},
                         TOO_MANY_REQUESTS)

\* createApp: the middleware in the order it is registered.  An error of the
\* body parser goes to errorHandler past every route; a route of the practice
\* router answers through its controller.
createApp(r) ==
    IF ~r.bodyParses
    THEN Taken("errorHandler", errorHandler(GenericError("Unexpected token in JSON")))
    ELSE IF r.overLimit THEN Taken("globalRateLimiter", globalRateLimiter)
    ELSE IF /\ MountedAt(r.path, <<"api", "practice">>)
            /\ [method |-> r.method, path |-> BelowMount(r.path, <<"api", "practice">>)]
                   \in practiceRoutes
    THEN Taken("practiceRoutes", NoReply)
    ELSE IF r.method = "GET" /\ r.path = <<"health">>
    THEN Taken("health", ResponseHandlerSuccess(Success(<<"ok">>, NoSuggestions)))
    ELSE IF r.method = "GET" /\ r.path = apiPrefix \o <<"version">>
    THEN Taken("version", ResponseHandlerSuccess(Success(<<"1.0.0">>, NoSuggestions)))
    ELSE Taken("notFound", notFoundHandler)

Dispatch ==
    /\ hpc = "ready"
    /\ handler' = createApp(httpReq).handler
    /\ httpReply' = createApp(httpReq).reply
    /\ hpc' = "done"
    /\ UNCHANGED httpReq

InitRouting ==
    /\ options = NoOptions
    /\ outbound = NoOutbound
    /\ opc = "off"
    /\ recipe = [kind |-> "none", arr |-> <<>>, wrap |-> NoWrapping, err |-> NoError]
    /\ modelReply = Threw(NoError)
    /\ recovered = Failure(NoError)
    /\ rpc = "off"
    /\ response = NoResponse
    /\ extracted = NoExtraction
    /\ xpc = "off"
    /\ call = NoCall
    /\ result = Failure(NoError)
    /\ spc = "off"
    /\ pc = "off"
    /\ req = NoRequest
    /\ prov = Threw(NoError)
    /\ outcome = Failure(NoError)
    /\ reply = NoReply
    /\ calls = 0
    /\ errorLogs = 0
    /\ responses = 0
    /\ events = <<>>
    /\ providerUsage = NoUsage
    /\ normalized = NoNormalized
    /\ upc = "off"
    /\ openai = OpenAI
    /\ inflight = <<>>
    /\ frames = <<>>
    /\ sent = <<>>
    /\ delivered = <<>>
    /\ entered = <<>>
    /\ settled = <<>>
    /\ httpReq \in HttpRequests
    /\ handler = "none"
    /\ httpReply = NoReply
    /\ hpc = "ready"
    /\ boot = "off"
    /\ database = "disconnected"
    /\ dbConnected = FALSE
    /\ dbFailed = FALSE
    /\ redisFailed = FALSE
    /\ redisClient = NoRedis
    /\ made = 0
    /\ warned = 0
    /\ listening = FALSE
    /\ exited = FALSE
    /\ exitCode = 0
    /\ exitedBy = "none"
    /\ shutdowns = <<>>
    /\ closers = <<>>
    /\ lastCall = NoRedisCall
    /\ sinceClose = FALSE

NextRouting == Dispatch /\ UNCHANGED <<rvars, xvars, svars, pvars, ovars, uvars, cvars, lvars, kvars>>

SpecRouting == InitRouting /\ [][NextRouting]_vars

(***************************************************************************)
(* SpecServer: startServer connects the services and listens; after that   *)
(* each signal and each uncaught error starts a gracefulShutdown, several  *)
(* of which may be in progress together.                                   *)
(***************************************************************************)
RedisClient(n) == [id |-> n]

\* createRedisClient(): the client it returns, which the module then holds,
\* and the number of clients constructed so far.
createRedisClient(held, constructed) ==
    IF held # NoRedis THEN [client |-> held, constructed |-> constructed]
    ELSE [client |-> RedisClient(constructed + 1), constructed |-> constructed + 1]

\* getRedisClient()
getRedisClient(held) == held

Triggers == {"SIGTERM", "SIGINT", "uncaughtException", "unhandledRejection"}

NoShutdown ==
    [at |-> "idle", dbDone |-> FALSE, redisStarted |-> FALSE, redisDone |-> FALSE,
     threw |-> FALSE]

\* Mutant: the failure of any service is thrown on to startServer.
Rethrown_always(service) == TRUE

\* connectServices: the failure of the database is thrown on, that of Redis
\* is caught by the inner try.
Rethrown(service) == service = "database"

\* Mutant: gracefulShutdown always exits with code 0.
ShutdownExitCode_zero(threw) == 0

\* gracefulShutdown: process.exit(0) at the end of the try, process.exit(1)
\* in the catch.
ShutdownExitCode(threw) == IF threw THEN 1 ELSE 0

\* startServer() is called: connectServices awaits prisma.$connect().
StartServer ==
    /\ boot = "start"
    /\ boot' = "connectingDatabase"
    /\ UNCHANGED <<database, dbConnected, dbFailed, redisFailed, redisClient, made,
                   warned, listening, exited, exitCode, exitedBy, shutdowns>>

\* A service failed: connectServices throws the failure on and startServer
\* exits with code 1, or it logs a warning and returns.
ServiceFails(service) ==
    IF Rethrown(service)
    THEN /\ boot' = "exited"
         /\ exited' = TRUE
         /\ exitCode' = 1
         /\ exitedBy' = "startServer"
         /\ UNCHANGED warned
    ELSE /\ boot' = "connected"
         /\ warned' = warned + 1
         /\ UNCHANGED <<exited, exitCode, exitedBy>>

\* prisma.$connect() resolves: the Redis client is taken and pinged.
DatabaseConnects ==
    /\ boot = "connectingDatabase"
    /\ database' = "connected"
    /\ dbConnected' = TRUE
    /\ redisClient' = createRedisClient(redisClient, made).client
    /\ made' = createRedisClient(redisClient, made).constructed
    /\ boot' = "pinging"
    /\ UNCHANGED <<dbFailed, redisFailed, warned, listening, exited, exitCode,
                   exitedBy, shutdowns>>

\* prisma.$connect() resolves and new Redis(...) throws: the module holds no
\* client.
RedisConstructionFails ==
    /\ boot = "connectingDatabase"
    /\ redisClient = NoRedis
    /\ database' = "connected"
    /\ dbConnected' = TRUE
    /\ redisFailed' = TRUE
    /\ ServiceFails("redis")
    /\ UNCHANGED <<dbFailed, redisClient, made, listening, shutdowns>>

\* prisma.$connect() rejects.
DatabaseFails ==
    /\ boot = "connectingDatabase"
    /\ dbFailed' = TRUE
    /\ ServiceFails("database")
    /\ UNCHANGED <<database, dbConnected, redisFailed, redisClient, made, listening,
                   shutdowns>>

\* redis.ping() resolves.
RedisAnswers ==
    /\ boot = "pinging"
    /\ boot' = "connected"
    /\ UNCHANGED <<database, dbConnected, dbFailed, redisFailed, redisClient, made,
                   warned, listening, exited, exitCode, exitedBy, shutdowns>>

\* redis.ping() rejects.
RedisFails ==
    /\ boot = "pinging"
    /\ redisFailed' = TRUE
    /\ ServiceFails("redis")
    /\ UNCHANGED <<database, dbConnected, dbFailed, redisClient, made, listening,
                   shutdowns>>

\* connectServices has returned: app.listen, then the handlers of the
\* signals and of the uncaught errors are registered.
Listen ==
    /\ boot = "connected"
    /\ listening' = TRUE
    /\ boot' = "up"
    /\ UNCHANGED <<database, dbConnected, dbFailed, redisFailed, redisClient, made,
                   warned, exited, exitCode, exitedBy, shutdowns>>

\* process.exit(code) called by the gracefulShutdown of trigger t
Exit(t, threw) ==
    /\ exited' = TRUE
    /\ exitCode' = ShutdownExitCode(threw)
    /\ exitedBy' = t
    /\ boot' = "exited"

\* A signal or an uncaught error arrives: its gracefulShutdown awaits
\* prisma.$disconnect().
Trigger(t) ==
    /\ boot = "up"
    /\ shutdowns[t].at = "idle"
    /\ shutdowns' = [shutdowns EXCEPT ![t].at = "disconnecting"]
    /\ UNCHANGED <<boot, database, dbConnected, dbFailed, redisFailed, redisClient,
                   made, warned, listening, exited, exitCode, exitedBy>>

\* prisma.$disconnect() resolves: closeRedisClient() awaits quit() of the
\* client the module holds, or returns at once when it holds none.
DatabaseDisconnects(t) ==
    /\ boot = "up"
    /\ shutdowns[t].at = "disconnecting"
    /\ database' = "disconnected"
    /\ IF redisClient # NoRedis
       THEN /\ shutdowns' = [shutdowns EXCEPT ![t].at = "quitting", ![t].dbDone = TRUE,
                                              ![t].redisStarted = TRUE]
            /\ UNCHANGED <<boot, exited, exitCode, exitedBy>>
       ELSE /\ shutdowns' = [shutdowns EXCEPT ![t].at = "done", ![t].dbDone = TRUE,
                                              ![t].redisStarted = TRUE,
                                              ![t].redisDone = TRUE]
            /\ Exit(t, FALSE)
    /\ UNCHANGED <<dbConnected, dbFailed, redisFailed, redisClient, made, warned,
                   listening>>

\* prisma.$disconnect() rejects.
DatabaseDisconnectFails(t) ==
    /\ boot = "up"
    /\ shutdowns[t].at = "disconnecting"
    /\ shutdowns' = [shutdowns EXCEPT ![t].at = "done", ![t].threw = TRUE]
    /\ Exit(t, TRUE)
    /\ UNCHANGED <<database, dbConnected, dbFailed, redisFailed, redisClient, made,
                   warned, listening>>

\* quit() resolves: redisClient = null, then process.exit(0).
RedisQuits(t) ==
    /\ boot = "up"
    /\ shutdowns[t].at = "quitting"
    /\ redisClient' = NoRedis
    /\ shutdowns' = [shutdowns EXCEPT ![t].at = "done", ![t].redisDone = TRUE]
    /\ Exit(t, FALSE)
    /\ UNCHANGED <<database, dbConnected, dbFailed, redisFailed, made, warned,
                   listening>>

\* quit() rejects.
RedisQuitFails(t) ==
    /\ boot = "up"
    /\ shutdowns[t].at = "quitting"
    /\ shutdowns' = [shutdowns EXCEPT ![t].at = "done", ![t].threw = TRUE]
    /\ Exit(t, TRUE)
    /\ UNCHANGED <<database, dbConnected, dbFailed, redisFailed, redisClient, made,
                   warned, listening>>

InitServer ==
    /\ options = NoOptions
    /\ outbound = NoOutbound
    /\ opc = "off"
    /\ recipe = [kind |-> "none", arr |-> <<>>, wrap |-> NoWrapping, err |-> NoError]
    /\ modelReply = Threw(NoError)
    /\ recovered = Failure(NoError)
    /\ rpc = "off"
    /\ response = NoResponse
    /\ extracted = NoExtraction
    /\ xpc = "off"
    /\ call = NoCall
    /\ result = Failure(NoError)
    /\ spc = "off"
    /\ pc = "off"
    /\ req = NoRequest
    /\ prov = Threw(NoError)
    /\ outcome = Failure(NoError)
    /\ reply = NoReply
    /\ calls = 0
    /\ errorLogs = 0
    /\ responses = 0
    /\ events = <<>>
    /\ providerUsage = NoUsage
    /\ normalized = NoNormalized
    /\ upc = "off"
    /\ openai = OpenAI
    /\ inflight = <<>>
    /\ frames = <<>>
    /\ sent = <<>>
    /\ delivered = <<>>
    /\ entered = <<>>
    /\ settled = <<>>
    /\ httpReq = NoHttpRequest
    /\ handler = "none"
    /\ httpReply = NoReply
    /\ hpc = "off"
    /\ boot = "start"
    /\ database = "disconnected"
    /\ dbConnected = FALSE
    /\ dbFailed = FALSE
    /\ redisFailed = FALSE
    /\ redisClient = NoRedis
    /\ made = 0
    /\ warned = 0
    /\ listening = FALSE
    /\ exited = FALSE
    /\ exitCode = 0
    /\ exitedBy = "none"
    /\ shutdowns = [t \in Triggers |-> NoShutdown]
    /\ closers = <<>>
    /\ lastCall = NoRedisCall
    /\ sinceClose = FALSE

NextServer ==
    \/ StartServer /\ UNCHANGED <<rvars, xvars, svars, pvars, ovars, uvars, cvars, hvars, kvars>>
    \/ DatabaseConnects /\ UNCHANGED <<rvars, xvars, svars, pvars, ovars, uvars, cvars, hvars, kvars>>
    \/ RedisConstructionFails
          /\ UNCHANGED <<rvars, xvars, svars, pvars, ovars, uvars, cvars, hvars, kvars>>
    \/ DatabaseFails /\ UNCHANGED <<rvars, xvars, svars, pvars, ovars, uvars, cvars, hvars, kvars>>
    \/ RedisAnswers /\ UNCHANGED <<rvars, xvars, svars, pvars, ovars, uvars, cvars, hvars, kvars>>
    \/ RedisFails /\ UNCHANGED <<rvars, xvars, svars, pvars, ovars, uvars, cvars, hvars, kvars>>
    \/ Listen /\ UNCHANGED <<rvars, xvars, svars, pvars, ovars, uvars, cvars, hvars, kvars>>
    \/ (\E t \in Triggers : Trigger(t))
          /\ UNCHANGED <<rvars, xvars, svars, pvars, ovars, uvars, cvars, hvars, kvars>>
    \/ (\E t \in Triggers : DatabaseDisconnects(t))
          /\ UNCHANGED <<rvars, xvars, svars, pvars, ovars, uvars, cvars, hvars, kvars>>
    \/ (\E t \in Triggers : DatabaseDisconnectFails(t))
          /\ UNCHANGED <<rvars, xvars, svars, pvars, ovars, uvars, cvars, hvars, kvars>>
    \/ (\E t \in Triggers : RedisQuits(t))
          /\ UNCHANGED <<rvars, xvars, svars, pvars, ovars, uvars, cvars, hvars, kvars>>
    \/ (\E t \in Triggers : RedisQuitFails(t))
          /\ UNCHANGED <<rvars, xvars, svars, pvars, ovars, uvars, cvars, hvars, kvars>>

SpecServer == InitServer /\ [][NextServer]_vars

(***************************************************************************)
(* SpecRedis: the redis module under any calls of its three functions.     *)
(* closeRedisClient awaits quit(), so other calls run while it waits.      *)
(***************************************************************************)
Callers == 1..MaxCallers

RedisCall(fn, returned, quit) ==
    [fn |-> fn, held |-> redisClient, constructed |-> made, returned |-> returned,
     quit |-> quit, since |-> sinceClose]

\* Mutant: the module keeps the client it has quit.
AfterQuit_kept(held) == held

\* closeRedisClient after quit() has resolved: redisClient = null
AfterQuit(held) == NoRedis

serverIdle == <<boot, database, dbConnected, dbFailed, redisFailed, warned, listening,
                exited, exitCode, exitedBy, shutdowns>>

\* createRedisClient()
Create(c) ==
    /\ closers[c] = "idle"
    /\ redisClient # NoRedis \/ made < MaxClients
    /\ redisClient' = createRedisClient(redisClient, made).client
    /\ made' = createRedisClient(redisClient, made).constructed
    /\ lastCall' = RedisCall("createRedisClient",
                             createRedisClient(redisClient, made).client, FALSE)
    /\ sinceClose' = (sinceClose \/ redisClient = NoRedis)
    /\ UNCHANGED closers

\* getRedisClient()
Get(c) ==
    /\ closers[c] = "idle"
    /\ lastCall' = RedisCall("getRedisClient", getRedisClient(redisClient), FALSE)
    /\ UNCHANGED <<redisClient, made, closers, sinceClose>>

\* closeRedisClient() is called: it awaits quit() of the client held, or
\* returns at once when none is held.
CloseBegins(c) ==
    /\ closers[c] = "idle"
    /\ closers' = [closers EXCEPT ![c] = IF redisClient # NoRedis THEN "quitting" ELSE "idle"]
    /\ lastCall' = RedisCall("closeRedisClient", NoRedis, redisClient # NoRedis)
    /\ UNCHANGED <<redisClient, made, sinceClose>>

\* quit() resolves: the close completes.
QuitResolves(c) ==
    /\ closers[c] = "quitting"
    /\ redisClient' = AfterQuit(redisClient)
    /\ closers' = [closers EXCEPT ![c] = "idle"]
    /\ lastCall' = RedisCall("closed", NoRedis, FALSE)
    /\ sinceClose' = FALSE
    /\ UNCHANGED made

\* quit() rejects: closeRedisClient throws.
QuitRejects(c) ==
    /\ closers[c] = "quitting"
    /\ closers' = [closers EXCEPT ![c] = "idle"]
    /\ lastCall' = RedisCall("closeFailed", NoRedis, FALSE)
    /\ UNCHANGED <<redisClient, made, sinceClose>>

InitRedis ==
    /\ options = NoOptions
    /\ outbound = NoOutbound
    /\ opc = "off"
    /\ recipe = [kind |-> "none", arr |-> <<>>, wrap |-> NoWrapping, err |-> NoError]
    /\ modelReply = Threw(NoError)
    /\ recovered = Failure(NoError)
    /\ rpc = "off"
    /\ response = NoResponse
    /\ extracted = NoExtraction
    /\ xpc = "off"
    /\ call = NoCall
    /\ result = Failure(NoError)
    /\ spc = "off"
    /\ pc = "off"
    /\ req = NoRequest
    /\ prov = Threw(NoError)
    /\ outcome = Failure(NoError)
    /\ reply = NoReply
    /\ calls = 0
    /\ errorLogs = 0
    /\ responses = 0
    /\ events = <<>>
    /\ providerUsage = NoUsage
    /\ normalized = NoNormalized
    /\ upc = "off"
    /\ openai = OpenAI
    /\ inflight = <<>>
    /\ frames = <<>>
    /\ sent = <<>>
    /\ delivered = <<>>
    /\ entered = <<>>
    /\ settled = <<>>
    /\ httpReq = NoHttpRequest
    /\ handler = "none"
    /\ httpReply = NoReply
    /\ hpc = "off"
    /\ boot = "off"
    /\ database = "disconnected"
    /\ dbConnected = FALSE
    /\ dbFailed = FALSE
    /\ redisFailed = FALSE
    /\ redisClient = NoRedis
    /\ made = 0
    /\ warned = 0
    /\ listening = FALSE
    /\ exited = FALSE
    /\ exitCode = 0
    /\ exitedBy = "none"
    /\ shutdowns = <<>>
    /\ closers = [c \in Callers |-> "idle"]
    /\ lastCall = NoRedisCall
    /\ sinceClose = FALSE

NextRedis ==
    \/ (\E c \in Callers : Create(c))
          /\ UNCHANGED <<rvars, xvars, svars, pvars, ovars, uvars, cvars, hvars, serverIdle>>
    \/ (\E c \in Callers : Get(c))
          /\ UNCHANGED <<rvars, xvars, svars, pvars, ovars, uvars, cvars, hvars, serverIdle>>
    \/ (\E c \in Callers : CloseBegins(c))
          /\ UNCHANGED <<rvars, xvars, svars, pvars, ovars, uvars, cvars, hvars, serverIdle>>
    \/ (\E c \in Callers : QuitResolves(c))
          /\ UNCHANGED <<rvars, xvars, svars, pvars, ovars, uvars, cvars, hvars, serverIdle>>
    \/ (\E c \in Callers : QuitRejects(c))
          /\ UNCHANGED <<rvars, xvars, svars, pvars, ovars, uvars, cvars, hvars, serverIdle>>

SpecRedis == InitRedis /\ [][NextRedis]_vars

(***************************************************************************)
(* Properties of the normalizers.                                          *)
(***************************************************************************)
\* The output list is absent or empty, or no message item of it has an
\* output_text element.
NoMessageText(r) ==
    \/ ~r.hasOutput
    \/ \A i \in 1..Len(r.output) :
          r.output[i].type = "message" /\ r.output[i].hasContent
              => \A j \in 1..Len(r.output[i].content) :
                    r.output[i].content[j].type # "output_text"

\* C1: for every Responses-API response whose output list is absent, empty, or
\* without a message item that has an output_text element, generateText and
\* talkWithSpecificTopic (and the earlier generateText) succeed with the empty
\* text and raise no error.
C1_NoMessageGivesEmptyText ==
    xpc = "done" /\ NoMessageText(response)
        => /\ extracted.generateText = Success(EmptyText, NoSuggestions)
           /\ extracted.talkWithSpecificTopic = Success(EmptyText, NoSuggestions)
           /\ extracted.generateTextInline = Success(EmptyText, NoSuggestions)

\* C1 is reached with a response that has items and content, none of them a text.
C1_Witness ==
    /\ xpc = "done"
    /\ NoMessageText(response)
    /\ response.hasOutput
    /\ Len(response.output) = 2
    /\ \E i \in 1..2 : /\ response.output[i].type = "message"
                       /\ response.output[i].hasContent
                       /\ Len(response.output[i].content) > 0
    /\ extracted.generateText.ok
    /\ extracted.generateText.text = EmptyText
    /\ extracted.talkWithSpecificTopic.ok

\* The text of the first output_text element of the first message item, the
\* empty text when there is none.
FirstTextOfFirstMessage(r) ==
    LET msgs == {i \in 1..Len(r.output) : r.output[i].type = "message"}
    IN  IF ~r.hasOutput \/ msgs = {} THEN EmptyText
        ELSE LET m == r.output[CHOOSE i \in msgs : \A k \in msgs : i <= k]
                 texts == {j \in 1..Len(m.content) : m.content[j].type = "output_text"}
             IN  IF ~m.hasContent \/ texts = {} THEN EmptyText
                 ELSE m.content[CHOOSE j \in texts : \A k \in texts : j <= k].text

\* C2: every extraction returns the text of the first output_text element of
\* the first message item and nothing else, the empty text when there is no
\* such element.
C2_FirstTextOfFirstMessage ==
    xpc = "done"
        => /\ extracted.generateText.text = FirstTextOfFirstMessage(response)
           /\ extracted.talkWithSpecificTopic.text = FirstTextOfFirstMessage(response)
           /\ extracted.generateTextInline.text = FirstTextOfFirstMessage(response)

\* C2 restricted to extractTextFromResponse, the helper of the current service.
C2_HelperTakesFirstTextOfFirstMessage ==
    xpc = "done"
        => /\ extracted.generateText.text = FirstTextOfFirstMessage(response)
           /\ extracted.talkWithSpecificTopic.text = FirstTextOfFirstMessage(response)

\* The inline loop has returned a text of a later message item.
C2_LaterMessageUsed ==
    /\ xpc = "done"
    /\ FirstTextOfFirstMessage(response) = EmptyText
    /\ extracted.generateText.text = EmptyText
    /\ extracted.generateTextInline.text # EmptyText

NoFirstMessage(p) == p.choices = <<>> \/ ~p.choices[1].hasMessage

\* C3: for a chat-completions reply whose choices list is empty or whose first
\* choice has no message, the chat-completions generateText returns the empty
\* text and does not fail.
C3_EmptyChoicesGiveEmptyText ==
    (spc = "done" /\ call.fn = "generateTextChat" /\ call.prov.err.kind = "none"
        /\ NoFirstMessage(call.prov))
        => result = Success(EmptyText, NoSuggestions)

\* The chat-completions generateText has failed on a reply without choices.
C3_EmptyChoicesFail ==
    /\ spc = "done"
    /\ call.fn = "generateTextChat"
    /\ call.prov = Completed(<<>>)
    /\ ~result.ok
    /\ result.err.code = "INTERNAL_SERVER_ERROR"
    /\ result.err.status = INTERNAL_SERVER_ERROR

(***************************************************************************)
(* Properties of the error mapping.                                        *)
(***************************************************************************)
\* The request in hand has been answered.
Answered == pc = "answered"

\* C4: when the provider call fails with an API error of status s, the service
\* throws an AppError OPENAI_API_ERROR with status s, 500 when the error has
\* no status, and the response of errorHandler has that status; this holds on
\* every endpoint, generateSuggestions included.
C4_ProviderStatusPreserved ==
    (prov.err.kind = "APIError" /\ (pc = "failed" \/ Answered))
        => /\ ~outcome.ok
           /\ outcome.err.kind = "AppError"
           /\ outcome.err.code = "OPENAI_API_ERROR"
           /\ outcome.err.status =
                 IF prov.err.status # 0 THEN prov.err.status ELSE INTERNAL_SERVER_ERROR
           /\ Answered => /\ ~reply.success
                          /\ reply.code = "OPENAI_API_ERROR"
                          /\ reply.status = outcome.err.status

\* C4 is reached when a rate-limit error of the provider has passed through
\* generateResponseSuggestions and errorHandler.
C4_Witness ==
    /\ Answered
    /\ req.endpoint = "generateSuggestions"
    /\ prov.err.kind = "APIError"
    /\ prov.err.status = 429
    /\ reply.status = 429
    /\ reply.code = "OPENAI_API_ERROR"

\* C5: an AppError that reaches the catch block of a service is thrown on as it
\* is: the 'No translation received' error and the unsupported-language error
\* of translateText, and the AppError generateText throws into
\* generateResponseSuggestions.
C5_TypedErrorsRethrownUnchanged ==
    spc = "done"
        => /\ (call.fn \in {"translateText", "translateTextLegacy"}
                  /\ (call.fn = "translateText" => call.lang \in LANGUAGE_NAMES)
                  /\ call.prov.err.kind = "none"
                  /\ FirstContentTrimmed(call.prov) = EmptyText)
               => (~result.ok /\ result.err = NoTranslation)
           /\ (call.fn = "translateText" /\ call.lang \notin LANGUAGE_NAMES)
               => (~result.ok /\ result.err = UnsupportedLanguage(call.lang))
           /\ (call.fn = "generateResponseSuggestions" /\ ~generateText(call.prov).ok)
               => (~result.ok /\ result.err = generateText(call.prov).err)

\* The earlier translateText has wrapped its own 'No translation received' error.
C5_NoTranslationWrapped ==
    /\ spc = "done"
    /\ call.fn = "translateTextLegacy"
    /\ call.prov = Completed(<<Choice(TRUE, <<" ">>)>>)
    /\ ~result.ok
    /\ result.err.code = "INTERNAL_SERVER_ERROR"
    /\ result.err.msg = <<"Failed to translate text", ": ">> \o NoTranslation.msg

\* C5 restricted to the current services.
C5_CurrentServicesRethrowUnchanged ==
    (spc = "done" /\ call.fn # "translateTextLegacy") => C5_TypedErrorsRethrownUnchanged

(***************************************************************************)
(* Properties of the order of the stages.                                  *)
(***************************************************************************)
\* A required string field: present, a string, not empty, within its ceiling.
Acceptable(f, max) == f.kind = "string" /\ f.len >= 1 /\ f.len <= max

\* The validation rules of the endpoints.
RulesHold(r) ==
    IF r.endpoint = "translate"
    THEN /\ Acceptable(r.a, MAX_TEXT_LENGTH)
         /\ ~r.a.blank
         /\ (r.lang.kind = "undefined"
                \/ (r.lang.kind = "string" /\ r.lang.code \in LANGUAGE_NAMES))
    ELSE IF r.endpoint = "generateText" THEN Acceptable(r.a, MAX_PROMPT_LENGTH)
    ELSE IF r.endpoint = "talkWithSpecificTopic"
    THEN Acceptable(r.a, MAX_TOPIC_LENGTH) /\ Acceptable(r.b, MAX_INITIAL_MESSAGE_LENGTH)
    ELSE IF r.endpoint = "generateSuggestions"
    THEN Acceptable(r.a, MAX_TOPIC_LENGTH)
         /\ Acceptable(r.b, MAX_CONVERSATION_HISTORY_LENGTH)
    ELSE IF r.endpoint = "generateExercises"
    THEN /\ ~Missing(r.a)
         /\ r.difficulty \in {"undefined", "beginner", "intermediate", "advanced"}
         /\ ~LessThan(exercisesBody(r).count, 1)
         /\ ~GreaterThan(exercisesBody(r).count, 20)
    ELSE IF r.endpoint \in TranscribeEndpoints
    THEN /\ r.file.present
         /\ fileFilter(r.file)
         /\ isSupportedAudioFormat(r.file.name)
         /\ r.file.size <= MAX_AUDIO_FILE_SIZE
    ELSE TRUE

StagesInOrder == <<"validate", "call", "normalize", "respond">>

NonEmptyString(v) == v.t = "string" /\ v.s # EmptyText

\* A non-empty string without leading or trailing whitespace.
CleanString(v) ==
    /\ NonEmptyString(v)
    /\ v.s[1] \notin WhiteSpace
    /\ v.s[Len(v.s)] \notin WhiteSpace

CleanText(t) == t # EmptyText /\ t[1] \notin WhiteSpace /\ t[Len(t)] \notin WhiteSpace

\* C6: a successful generateResponseSuggestions carries exactly 3 suggestions,
\* each non-empty and without leading or trailing whitespace; for every reply
\* of the model, and for every failure of the provider, the call otherwise
\* fails with an AppError.
C6_ThreeCleanSuggestionsOrAppError ==
    rpc = "done"
        => IF recovered.ok
           THEN /\ Len(recovered.suggestions) = 3
                /\ \A i \in 1..3 : CleanText(recovered.suggestions[i])
           ELSE /\ recovered.err.kind = "AppError"
                /\ recovered.err.code \in {"OPENAI_API_ERROR", "INTERNAL_SERVER_ERROR"}

\* C6 is reached with a fenced array of four whose second string is padded.
C6_Witness ==
    /\ rpc = "done"
    /\ recipe.kind = "suggestions"
    /\ recipe.wrap.fence = "json"
    /\ Len(recipe.arr) = 4
    /\ recipe.arr[2] = JStr(<<" ", "b", " ">>)
    /\ recovered.ok
    /\ recovered.suggestions[2] = <<"b">>

\* The reply is the serialized object, as it is or in a json fence.
RoundTripReply(r) ==
    /\ r.kind = "suggestions"
    /\ Len(r.arr) = 3
    /\ r.wrap.fence \in {"none", "json"}
    /\ ~r.wrap.tail

\* C7 as stated: any 3 non-empty strings come back unchanged and in order from
\* the serialized object, fenced as json or not.
C7_RoundTripOfNonEmptyStrings ==
    (rpc = "done" /\ RoundTripReply(recipe) /\ \A i \in 1..3 : NonEmptyString(recipe.arr[i]))
        => recovered = Success(EmptyText, MapSeq(recipe.arr, TextOf))

\* C7 amended: any 3 non-empty strings without leading or trailing whitespace
\* come back unchanged and in order from the serialized object, fenced as json
\* or not.
C7_RoundTripOfCleanStrings ==
    (rpc = "done" /\ RoundTripReply(recipe) /\ \A i \in 1..3 : CleanString(recipe.arr[i]))
        => recovered = Success(EmptyText, MapSeq(recipe.arr, TextOf))

\* C7 is reached with a fenced object whose strings need escaping.
C7_Witness ==
    /\ rpc = "done"
    /\ recipe.kind = "suggestions"
    /\ recipe.wrap = [fence |-> "json", pretty |-> FALSE, tail |-> FALSE]
    /\ recipe.arr = <<JStr(<<"a">>), JStr(<<"{", "\"", "\\", "\n", Backtick>>), JStr(<<"a">>)>>
    /\ recovered.ok
    /\ recovered.suggestions = <<<<"a">>, <<"{", "\"", "\\", "\n", Backtick>>, <<"a">>>>

\* A trimmed line the fallback keeps.
KeptLine(l) == l # EmptyText /\ l[1] \notin {"{", "["}

KeptLines(arr) == FilterSeq(MapSeq(arr, TrimmedTextOf), KeptLine)

\* C8: when the reply is plain lines, the first 3 non-empty trimmed lines that
\* do not start with '{' or '[' are returned in order; when there are fewer
\* than 3, and when the reply is one line of JSON that the strict tier
\* rejects, the call fails with the AppError INTERNAL_SERVER_ERROR of status
\* 500.
C8_FallbackLinesOrInternalError ==
    /\ (rpc = "done" /\ recipe.kind = "lines")
          => IF Len(KeptLines(recipe.arr)) >= 3
             THEN recovered = Success(EmptyText, Take(KeptLines(recipe.arr), 3))
             ELSE /\ ~recovered.ok
                  /\ recovered.err.kind = "AppError"
                  /\ recovered.err.code = "INTERNAL_SERVER_ERROR"
                  /\ recovered.err.status = INTERNAL_SERVER_ERROR
    /\ (rpc = "done" /\ recipe.wrap = NoWrapping
           /\ recipe.kind \in {"otherKey", "bareArray", "truncated", "scalar"})
          => /\ ~recovered.ok
             /\ recovered.err.kind = "AppError"
             /\ recovered.err.code = "INTERNAL_SERVER_ERROR"
             /\ recovered.err.status = INTERNAL_SERVER_ERROR

\* C8 is reached with three lines of which the fallback keeps two, and fails.
C8_Witness ==
    /\ rpc = "done"
    /\ recipe.kind = "lines"
    /\ recipe.arr = <<JStr(<<"a">>), JStr(<<"{", "a">>), JStr(<<" ", "b", " ">>)>>
    /\ ~recovered.ok
    /\ recovered.err.code = "INTERNAL_SERVER_ERROR"

\* The fallback has returned three of four plain lines.
C8_ThreeLinesRecovered ==
    /\ rpc = "done"
    /\ recipe.kind = "lines"
    /\ recipe.arr = <<JStr(<<"a">>), JStr(<<"{", "a">>), JStr(<<" ", "b", " ">>), JStr(<<"a">>)>>
    /\ recovered = Success(EmptyText, <<<<"a">>, <<"b">>, <<"a">>>>)

\* The reply is the serialized object of 3 clean strings inside a fence.
FencedReply(r) ==
    /\ r.kind = "suggestions"
    /\ Len(r.arr) = 3
    /\ \A i \in 1..3 : CleanString(r.arr[i])
    /\ r.wrap.fence \in {"json", "bare", "tag"}
    /\ ~r.wrap.tail

\* C9: a fenced object of 3 suggestions is recovered as those suggestions,
\* whether the fence has the tag json, no tag or another tag.
C9_AnyFenceStripped ==
    (rpc = "done" /\ FencedReply(recipe))
        => recovered = Success(EmptyText, MapSeq(recipe.arr, TextOf))

\* C9 restricted to the fences with the tag json and without a tag.
C9_JsonAndBareFencesStripped ==
    (rpc = "done" /\ FencedReply(recipe) /\ recipe.wrap.fence # "tag")
        => recovered = Success(EmptyText, MapSeq(recipe.arr, TextOf))

\* The call has failed on a valid object in a fence with another tag.
C9_TaggedFenceFails ==
    /\ rpc = "done"
    /\ FencedReply(recipe)
    /\ recipe.wrap = [fence |-> "tag", pretty |-> FALSE, tail |-> FALSE]
    /\ ~recovered.ok
    /\ recovered.err.code = "INTERNAL_SERVER_ERROR"

(***************************************************************************)
(* Properties of the provider call of a request.                           *)
(***************************************************************************)
\* The provider call of the request has ended with an error.
ProviderFailed == calls > 0 /\ pc \notin {"service", "awaiting"} /\ prov.err.kind # "none"

AnsweredWithError == Answered /\ ~reply.success

\* C12: for every failed request exactly one error log entry is written on
\* the whole path from the service through the controller to the error handler.
C12_EveryFailureLoggedOnce == AnsweredWithError => errorLogs = 1

\* The part of C12 that holds: a request rejected before its service is entered
\* is logged once, by the error handler.
C12_RejectedRequestLoggedOnce == (AnsweredWithError /\ calls = 0) => errorLogs = 1

\* A provider API error is logged three times: twice by the catch block of
\* the service, once by the error handler.
C12_ProviderErrorLoggedThrice ==
    /\ AnsweredWithError
    /\ req.endpoint = "generateText"
    /\ prov = Threw(APIErrorOf(429))
    /\ errorLogs = 3

\* A recovery failure is logged three times: by the failed parse, by the outer
\* catch of the service and by the error handler.
C12_RecoveryFailureLoggedThrice ==
    /\ AnsweredWithError
    /\ req.endpoint = "generateSuggestions"
    /\ prov.err = NoError
    /\ reply.message = RecoveryFailure.msg
    /\ errorLogs = 3

\* The provider call of the request ended with an exception that is not a
\* provider API error.
GenericExceptionRaised == calls = 1 /\ prov.err.kind = "Error"

\* The message of the envelope holds the message of the exception.
MessageHoldsExceptionText ==
    \E i \in DOMAIN reply.message, j \in DOMAIN prov.err.msg :
        reply.message[i] = prov.err.msg[j]

\* C13: a generic exception during a provider call is answered with an
\* internal error of status 500 whose message is generic: the message of the
\* exception is not contained in the message of the envelope.
C13_ExceptionMessageNotInEnvelope ==
    (Answered /\ GenericExceptionRaised)
        => /\ reply.status = INTERNAL_SERVER_ERROR
           /\ reply.code = "INTERNAL_SERVER_ERROR"
           /\ ~MessageHoldsExceptionText

\* The part of C13 that holds: the exception is answered as an internal error
\* of status 500.
C13_GenericExceptionIsInternalError ==
    (Answered /\ GenericExceptionRaised)
        => /\ ~reply.success
           /\ reply.status = INTERNAL_SERVER_ERROR
           /\ reply.code = "INTERNAL_SERVER_ERROR"

\* The envelope of a transcription that failed on the network carries the
\* message of the exception.
C13_ExceptionMessageInEnvelope ==
    /\ Answered
    /\ req.endpoint = "transcribe"
    /\ prov = Threw(GenericError("socket hang up"))
    /\ reply.message = <<"Failed to transcribe audio", ": ", "socket hang up">>

(***************************************************************************)
(* Properties of the requests sent to the provider.                        *)
(***************************************************************************)
\* The model the requests built from the options are made for.
ModelInUse == WithDefaults(options).model

\* The request carries neither sampling parameter and is sent.
Gated(r) == r.issued /\ "temperature" \notin r.keys /\ "top_p" \notin r.keys

\* C14: every text generation request for a model of a reasoning family (o1,
\* o3, gpt-5) has no temperature key and no top_p key, whatever the caller
\* supplied and whatever the configuration defaults to, and it is sent all the
\* same; where the options carried sampling parameters a warning is logged.
C14_NoSamplingKeysForReasoningModels ==
    (opc = "done" /\ isReasoningModel(ModelInUse))
        => /\ Gated(outbound.responses) /\ outbound.responses.warnings = 1
           /\ Gated(outbound.chat)
           /\ Gated(outbound.current)

\* The part of C14 that holds: the generateText that builds its Responses API
\* request from the options, and the current generateText, send neither key
\* for a reasoning model; for another model the former sends both.
C14_ResponsesRequestsGated ==
    opc = "done"
        => /\ isReasoningModel(ModelInUse)
                => /\ Gated(outbound.responses) /\ outbound.responses.warnings = 1
           /\ isReasoningModel(outbound.current.model) /\ Gated(outbound.current)
           /\ ~isReasoningModel(ModelInUse)
                => /\ {"temperature", "top_p"} \subseteq outbound.responses.keys
                   /\ outbound.responses.warnings = 0

\* The chat completions request for the configured model gpt-5-nano carries
\* the caller's temperature and top_p.
C14_ChatRequestCarriesTemperature ==
    /\ opc = "done"
    /\ ~options.hasModel
    /\ options.temperature = "0.7"
    /\ isReasoningModel(outbound.chat.model)
    /\ {"temperature", "top_p"} \subseteq outbound.chat.keys
    /\ outbound.chat.temperature = "0.7"
    /\ outbound.chat.top_p = "1"

(***************************************************************************)
(* Properties of the response of a request.                                *)
(***************************************************************************)
\* success = true, data and timestamp present, no error field
SuccessEnvelope(r) ==
    /\ r.success
    /\ {"success", "data", "timestamp"} \subseteq r.keys
    /\ "error" \notin r.keys

\* success = false, error.code and error.message present, timestamp present,
\* no data field
ErrorEnvelope(r) ==
    /\ ~r.success
    /\ {"success", "error", "timestamp"} \subseteq r.keys
    /\ {"code", "message"} \subseteq r.errorKeys
    /\ r.code # ""
    /\ r.message # <<>>
    /\ "data" \notin r.keys

\* At most one response per request, exactly one once the request has been
\* handled, and the response is a success envelope or an error envelope.
OneEnvelope ==
    /\ responses <= 1
    /\ pc = "answered" => responses = 1
    /\ responses = 1 => /\ pc = "answered"
                        /\ SuccessEnvelope(reply) \/ ErrorEnvelope(reply)
                        /\ ~(SuccessEnvelope(reply) /\ ErrorEnvelope(reply))
    /\ responses = 0 => reply = NoReply

\* How far a request has come on its way to the response.
Stage(at) ==
    IF at = "routed" THEN 1
    ELSE IF at = "validating" THEN 2
    ELSE IF at = "service" THEN 3
    ELSE IF at = "awaiting" THEN 4
    ELSE IF at = "settled" THEN 5
    ELSE IF at \in {"succeeded", "failed"} THEN 6
    ELSE IF at = "answered" THEN 7
    ELSE 0

\* A request on its way can always take a step (it is at a place one of the
\* handlers starts from, and an awaited provider call has a way to end), and
\* every step takes it nearer to the response: no path ends without one.
NeverStuck ==
    /\ pc \in {"idle", "routed", "validating", "service", "awaiting", "settled",
               "succeeded", "failed", "answered"}
    /\ pc = "awaiting" => ProviderOutcomes(req) # {}

Advances == pc \notin {"idle", "answered"} => Stage(pc') > Stage(pc)

\* C15: every handled request ends with exactly one response, a success
\* envelope or an error envelope and never both, and no request path ends
\* without a response.
C15_ExactlyOneEnvelope == []OneEnvelope /\ []NeverStuck /\ [][Advances]_vars

\* C15 is reached when an upload the middleware refused has been answered with
\* an error envelope, its only response.
C15_Witness ==
    /\ Answered
    /\ responses = 1
    /\ req.endpoint = "transcribe"
    /\ ~fileFilter(req.file)
    /\ ErrorEnvelope(reply)
    /\ reply.status = INTERNAL_SERVER_ERROR

(***************************************************************************)
(* Properties of the validation rules.                                     *)
(***************************************************************************)
\* A string longer than max.
OverLong(f, max) == f.kind = "string" /\ f.len > max

\* A string of exactly max characters that are not all white space.
AtCeiling(f, max) == f = Str(max, FALSE)

\* The request was refused by its controller, without a provider call.
RefusedAsInvalid ==
    /\ reply.code = "VALIDATION_ERROR"
    /\ reply.status = BAD_REQUEST
    /\ ~reply.success
    /\ calls = 0

\* The refusal names the ceiling max of the field called what.
NamesCeiling(what, max) ==
    /\ RefusedAsInvalid
    /\ reply.message = <<what, " is too long. Maximum ", "characters allowed.">>
    /\ reply.nums = {max}

\* The ceiling of field f of the request, where the request has the field and
\* no rule its controller checks before the length of f is broken.
LengthRuleReached(endpoint, f) ==
    /\ req.endpoint = endpoint
    /\ IF endpoint = "translate" THEN f = "a" /\ req.a.kind = "string" /\ ~req.a.blank
       ELSE IF endpoint = "generateText" THEN f = "a" /\ ~Missing(req.a)
       ELSE IF endpoint = "talkWithSpecificTopic" /\ f = "a"
       THEN ~Missing(req.a) /\ ~Missing(req.b)
       ELSE /\ endpoint = "talkWithSpecificTopic" /\ f = "b"
            /\ ~Missing(req.a) /\ ~Missing(req.b) /\ req.a.len <= MAX_TOPIC_LENGTH

FreeTextFields ==
    IF req.endpoint \in {"translate", "generateText"} THEN {req.a}
    ELSE IF req.endpoint \in {"talkWithSpecificTopic", "generateSuggestions"}
    THEN {req.a, req.b}
    ELSE {}

\* A string with nothing left after trimming: empty, or white space only.
BlankString(f) == f.kind = "string" /\ f.blank

\* C17: a request with a free-text field (translate text, prompt, topic,
\* initial_message, conversationHistory) that is empty or consists only of
\* white space is refused with status 400 and no provider call is made for it.
C17_BlankFieldsRefused ==
    (Answered /\ \E f \in FreeTextFields : BlankString(f))
        => /\ ~reply.success
           /\ reply.status = BAD_REQUEST
           /\ calls = 0

\* The part of C17 that holds: an empty string is refused in every field, and
\* a translate text of white space only is refused.
C17_EmptyFieldsAndBlankTextRefused ==
    (Answered /\ \/ \E f \in FreeTextFields : BlankString(f) /\ f.len = 0
                 \/ req.endpoint = "translate" /\ BlankString(req.a))
        => /\ reply.code = "VALIDATION_ERROR"
           /\ reply.status = BAD_REQUEST
           /\ calls = 0

\* A prompt of white space only has been sent to the provider.
C17_BlankPromptReachesProvider ==
    /\ Answered
    /\ req.endpoint = "generateText"
    /\ req.a = Str(BlankLen, TRUE)
    /\ calls = 1
    /\ events = StagesInOrder

\* The request in hand is a translation whose text passes the rules for the text.
TranslationWithGoodText ==
    /\ req.endpoint = "translate"
    /\ Acceptable(req.a, MAX_TEXT_LENGTH)
    /\ ~req.a.blank

\* The codes of the allow-list.
SevenCodes == {"zh-CN", "zh-TW", "ja", "ko", "es", "fr", "de"}

\* The message of the response enumerates the supported codes.
EnumeratesCodes == \A c \in SevenCodes : \E i \in DOMAIN reply.message : reply.message[i] = c

\* The target language is neither omitted nor one of the seven codes.
OutsideAllowList(l) == l.kind # "undefined" /\ ~(l.kind = "string" /\ l.code \in SevenCodes)

\* C18: a translation reaches the provider only with a target language of the
\* allow-list of seven codes, an omitted targetLanguage being taken as zh-TW;
\* any other value, a non-string included, is refused with VALIDATION_ERROR
\* (400) and a message that enumerates the supported codes.
C18_OnlyAllowListedLanguages ==
    /\ (req.endpoint = "translate" /\ calls > 0)
          => /\ bodyForValidation(req).code \in SevenCodes
             /\ req.lang.kind = "undefined" => bodyForValidation(req).code = "zh-TW"
    /\ (Answered /\ TranslationWithGoodText /\ OutsideAllowList(req.lang))
          => RefusedAsInvalid /\ EnumeratesCodes

\* The part of C18 that holds: only the seven codes reach the provider, and a
\* string outside the allow-list is refused with the codes enumerated; a value
\* that is not a string is refused as well.
C18_UnlistedStringRefusedWithCodes ==
    /\ (req.endpoint = "translate" /\ calls > 0)
          => /\ bodyForValidation(req).code \in SevenCodes
             /\ req.lang.kind = "undefined" => bodyForValidation(req).code = "zh-TW"
    /\ (Answered /\ TranslationWithGoodText /\ OutsideAllowList(req.lang))
          => /\ RefusedAsInvalid
             /\ req.lang.kind = "string" => EnumeratesCodes

\* A target language that is not a string has been refused with a message that
\* names no code.
C18_NonStringRefusedWithoutCodes ==
    /\ Answered
    /\ TranslationWithGoodText
    /\ req.lang.kind = "nonString"
    /\ RefusedAsInvalid
    /\ reply.message = <<"Target language must be a string">>

\* The request in hand asks for exercises and its error type and difficulty
\* pass their rules.
ExercisesWithGoodFields ==
    /\ req.endpoint = "generateExercises"
    /\ ~Missing(req.a)
    /\ req.difficulty \in {"undefined", "beginner", "intermediate", "advanced"}

\* An integer of the inclusive range 1..20.
IntegerInRange(c) == c.kind = "number" /\ ~c.half /\ c.whole >= 1 /\ c.whole <= 20

\* The refusal names the bounds 1 and 20.
NamesBounds == RefusedAsInvalid /\ reply.nums = {1, 20}

\* C19: the exercise count is accepted only when it is an integer of the
\* inclusive range 1..20, 5 being taken when it is omitted; 0, 21 and every
\* value that is not an integer of the range are refused with VALIDATION_ERROR
\* (400) naming the bounds 1 and 20, before any provider call.
C19_CountIsIntegerInRange ==
    /\ req.count.kind = "undefined" => exercisesBody(req).count = Num(5, FALSE)
    /\ (Answered /\ ExercisesWithGoodFields)
          => IF IntegerInRange(exercisesBody(req).count) THEN calls = 1 ELSE NamesBounds

\* The part of C19 that holds: a number below 1 or above 20 is refused naming
\* the bounds and without a provider call, an integer of the range is accepted,
\* and an omitted count is taken as 5.
C19_NumbersOutOfRangeRefused ==
    /\ req.count.kind = "undefined" => exercisesBody(req).count = Num(5, FALSE)
    /\ (Answered /\ ExercisesWithGoodFields)
          => /\ IntegerInRange(exercisesBody(req).count) => calls = 1
             /\ (req.count.kind = "number"
                    /\ (req.count.whole < 1 \/ req.count.whole > 20
                           \/ req.count = Num(20, TRUE)))
                  => NamesBounds

\* Exercises have been asked of the provider for a count of 2.5.
C19_FractionAccepted ==
    /\ Answered
    /\ ExercisesWithGoodFields
    /\ req.count = Num(2, TRUE)
    /\ calls = 1

\* Exercises have been asked of the provider for a count that is a string
\* without a number in it.
C19_NonNumberAccepted ==
    /\ Answered
    /\ ExercisesWithGoodFields
    /\ req.count.kind = "string"
    /\ req.count.nan
    /\ calls = 1

(***************************************************************************)
(* Properties of the translation result.                                   *)
(***************************************************************************)
\* The language code the translation was asked for: the one of the request,
\* zh-TW when the request has none.
RequestedLanguage == IF req.lang.kind = "undefined" THEN "zh-TW" ELSE req.lang.code

\* The provider replied without a translation: no choice, no message, or a
\* content that is empty or white space only.
NoTranslationInReply ==
    /\ calls = 1
    /\ prov.err.kind = "none"
    /\ \/ prov.choices = <<>>
       \/ ~prov.choices[1].hasMessage
       \/ IsBlank(prov.choices[1].content)

\* C20: every success envelope of the translate endpoint has sourceLanguage
\* "en", the requested or defaulted language code as targetLanguage, and a
\* translatedText that is not empty; a provider reply whose translation is
\* missing, empty or white space only gives an error envelope, never a success
\* envelope.
C20_TranslationEnvelope ==
    (Answered /\ req.endpoint = "translate")
        => /\ reply.success
                => /\ SuccessEnvelope(reply)
                   /\ reply.data.sourceLanguage = "en"
                   /\ reply.data.targetLanguage = RequestedLanguage
                   /\ reply.data.text # <<>>
                   /\ ~IsBlank(reply.data.text)
           /\ NoTranslationInReply => ErrorEnvelope(reply)

\* C20 is reached when a translation with no targetLanguage has been answered
\* with the trimmed reply of the provider and the language zh-TW.
C20_Witness ==
    /\ Answered
    /\ req.endpoint = "translate"
    /\ req.lang.kind = "undefined"
    /\ prov = Completed(<<Choice(TRUE, <<" ", "a", " ">>)>>)
    /\ reply.success
    /\ reply.data.text = <<"a">>
    /\ reply.data.sourceLanguage = "en"
    /\ reply.data.targetLanguage = "zh-TW"

\* The results of the two translateText functions have the same three fields.
C20_ServiceResultFields ==
    (spc = "done" /\ call.fn \in {"translateText", "translateTextLegacy"} /\ result.ok)
        => /\ result.sourceLanguage = "en"
           /\ result.targetLanguage = call.lang
           /\ result.text # <<>>
           /\ ~IsBlank(result.text)

(***************************************************************************)
(* Properties of the audio upload.                                         *)
(***************************************************************************)
\* An audio upload has been answered.
UploadAnswered == Answered /\ req.endpoint \in TranscribeEndpoints /\ req.file.present

\* The last part of the file name in lower case is one of the seven extensions.
SupportedExtension ==
    ToLowerCase(req.file.name[Len(req.file.name)])
        \in {"mp3", "mp4", "mpeg", "mpga", "m4a", "wav", "webm"}

\* C21: an audio file whose extension is not one of the seven is refused with
\* HTTP 400 and the code INVALID_AUDIO_FORMAT before any provider call,
\* whatever mimetype the upload declares, and a file passes the format check
\* only when its name carries one of the seven extensions in any case.
C21_UnsupportedExtensionRefused ==
    /\ (UploadAnswered /\ ~SupportedExtension)
            => /\ ErrorEnvelope(reply)
               /\ reply.status = BAD_REQUEST
               /\ reply.code = "INVALID_AUDIO_FORMAT"
               /\ calls = 0
    /\ (UploadAnswered /\ calls > 0) => SupportedExtension

\* The part of C21 that holds: no file with another extension reaches the
\* provider, and one that declares an audio mimetype and is within the size
\* limit is refused with 400 INVALID_AUDIO_FORMAT.
C21_AudioMimetypeRefusedAsInvalidFormat ==
    /\ (UploadAnswered /\ ~SupportedExtension)
            => /\ ErrorEnvelope(reply)
               /\ calls = 0
               /\ (fileFilter(req.file) /\ req.file.size <= MAX_AUDIO_FILE_SIZE)
                      => /\ reply.status = BAD_REQUEST
                         /\ reply.code = "INVALID_AUDIO_FORMAT"
    /\ (UploadAnswered /\ calls > 0) => SupportedExtension

\* An .ogg file declared as text/plain is answered with 500 INTERNAL_SERVER_ERROR.
C21_OtherMimetypeIsInternalError ==
    /\ UploadAnswered
    /\ req.file.name = <<"clip", "ogg">>
    /\ req.file.mimetype = "text/plain"
    /\ req.file.size = 1
    /\ reply.status = INTERNAL_SERVER_ERROR
    /\ reply.code = "INTERNAL_SERVER_ERROR"
    /\ calls = 0

\* An .ogg file declared as audio/ogg is answered with 400 INVALID_AUDIO_FORMAT,
\* and a file named CLIP.MP3 reaches the provider.
C21_OggRefused ==
    /\ UploadAnswered
    /\ req.file.name = <<"clip", "ogg">>
    /\ req.file.mimetype = "audio/ogg"
    /\ reply.status = BAD_REQUEST
    /\ reply.code = "INVALID_AUDIO_FORMAT"
    /\ calls = 0

C21_UpperCaseExtensionAccepted ==
    /\ UploadAnswered
    /\ req.file.name = <<"clip", "MP3">>
    /\ calls = 1
    /\ reply.success

\* C22: an upload larger than 25 MB is refused with HTTP 400 and the code
\* AUDIO_FILE_TOO_LARGE and never reaches the provider, on both transcribe
\* routes, and a file of exactly 25 MB passes the size check.
C22_OversizeRefusedAsTooLarge ==
    (UploadAnswered /\ req.file.size > MAX_AUDIO_FILE_SIZE)
        => /\ ErrorEnvelope(reply)
           /\ reply.status = BAD_REQUEST
           /\ reply.code = "AUDIO_FILE_TOO_LARGE"
           /\ calls = 0

\* The part of C22 that holds: an upload larger than 25 MB gets an error
\* envelope and never reaches the provider, on both routes.
C22_OversizeNeverReachesProvider ==
    (UploadAnswered /\ req.file.size > MAX_AUDIO_FILE_SIZE)
        => /\ ErrorEnvelope(reply)
           /\ calls = 0

\* An mp3 file of 25 MB and one byte is answered with 500 INTERNAL_SERVER_ERROR
\* on the detailed route.
C22_OversizeIsInternalError ==
    /\ UploadAnswered
    /\ req.endpoint = "transcribeDetailed"
    /\ req.file = AudioFile(<<"clip", "mp3">>, "audio/mpeg", MAX_AUDIO_FILE_SIZE + 1)
    /\ reply.status = INTERNAL_SERVER_ERROR
    /\ reply.code = "INTERNAL_SERVER_ERROR"
    /\ calls = 0

\* An mp3 file of exactly 25 MB reaches the provider.
C22_ExactLimitAccepted ==
    /\ UploadAnswered
    /\ req.file = AudioFile(<<"clip", "mp3">>, "audio/mpeg", MAX_AUDIO_FILE_SIZE)
    /\ calls = 1
    /\ reply.success

(***************************************************************************)
(* Properties of the usage of a result.                                    *)
(***************************************************************************)
\* What the provider reported for a field of the usage of a result.
Reported(k) ==
    IF providerUsage.kind # "object" THEN Omitted
    ELSE IF k = "totalTokens" THEN providerUsage.total_tokens
    ELSE IF k = "promptTokens"
    THEN IF providerUsage.shape = "responses" THEN providerUsage.input_tokens
         ELSE providerUsage.prompt_tokens
    ELSE IF k = "completionTokens"
    THEN IF providerUsage.shape = "responses" THEN providerUsage.output_tokens
         ELSE providerUsage.completion_tokens
    ELSE IF k = "cachedTokens"
    THEN IF providerUsage.input_tokens_details.kind # "object" THEN Omitted
         ELSE providerUsage.input_tokens_details.cached_tokens
    ELSE IF providerUsage.output_tokens_details.kind # "object" THEN Omitted
         ELSE providerUsage.output_tokens_details.reasoning_tokens

UsageKeys(f) ==
    IF f \in {"generateText", "talkWithSpecificTopic", "generateTextInline"}
    THEN {"promptTokens", "completionTokens", "totalTokens", "cachedTokens",
          "reasoningTokens"}
    ELSE {"promptTokens", "completionTokens", "totalTokens"}

\* C23: in the result of every normalizer each usage field is a number, the
\* three token counts always and cachedTokens and reasoningTokens for the
\* Responses API; it is 0 when the provider left out the usage object or the
\* field, and the number the provider reported otherwise.
C23_UsageFieldsAreNumbers ==
    upc = "done"
        => \A f \in DOMAIN normalized :
              /\ DOMAIN normalized[f] = UsageKeys(f)
              /\ \A k \in UsageKeys(f) :
                    /\ normalized[f][k].kind = "number"
                    /\ Reported(k).kind # "number" => normalized[f][k].n = 0
                    /\ Reported(k).kind = "number" => normalized[f][k].n = Reported(k).n

\* C23 is reached when a usage with input_tokens, without total_tokens, with a
\* null output_tokens and without details has been normalized.
C23_Witness ==
    /\ upc = "done"
    /\ providerUsage = ResponseUsage(Tokens(2), Null, Omitted, NoDetails("undefined"),
                                     OutputTokensDetails(Tokens(1)))
    /\ normalized["generateText"].promptTokens = Tokens(2)
    /\ normalized["generateText"].completionTokens = Tokens(0)
    /\ normalized["generateText"].totalTokens = Tokens(0)
    /\ normalized["generateText"].cachedTokens = Tokens(0)
    /\ normalized["generateText"].reasoningTokens = Tokens(1)

BothReported ==
    /\ Reported("promptTokens").kind = "number"
    /\ Reported("completionTokens").kind = "number"

\* C24: when the provider reports both the prompt and the completion token
\* count, totalTokens of the result is promptTokens + completionTokens, for
\* every normalizer.
C24_TotalIsSum ==
    (upc = "done" /\ BothReported)
        => \A f \in DOMAIN normalized :
              normalized[f].totalTokens.n
                  = normalized[f].promptTokens.n + normalized[f].completionTokens.n

\* The part of C24 that holds: totalTokens is the sum when the provider
\* reports both counts and a total that is their sum.
C24_ReportedSumPreserved ==
    (/\ upc = "done"
     /\ BothReported
     /\ Reported("totalTokens").kind = "number"
     /\ Reported("totalTokens").n
            = Reported("promptTokens").n + Reported("completionTokens").n)
        => \A f \in DOMAIN normalized :
              normalized[f].totalTokens.n
                  = normalized[f].promptTokens.n + normalized[f].completionTokens.n

\* A response that reports 1 input and 1 output token and no total gives
\* totalTokens 0.
C24_OmittedTotalIsZero ==
    /\ upc = "done"
    /\ providerUsage.shape = "responses"
    /\ providerUsage.input_tokens = Tokens(1)
    /\ providerUsage.output_tokens = Tokens(1)
    /\ providerUsage.total_tokens = Omitted
    /\ normalized["talkWithSpecificTopic"].promptTokens = Tokens(1)
    /\ normalized["talkWithSpecificTopic"].completionTokens = Tokens(1)
    /\ normalized["talkWithSpecificTopic"].totalTokens = Tokens(0)

\* A response that reports 1 input, 1 output and 2 total tokens gives
\* totalTokens 2.
C24_ReportedSumReached ==
    /\ upc = "done"
    /\ providerUsage.shape = "chat"
    /\ providerUsage.prompt_tokens = Tokens(1)
    /\ providerUsage.completion_tokens = Tokens(1)
    /\ providerUsage.total_tokens = Tokens(2)
    /\ normalized["generateTextChat"].totalTokens = Tokens(2)

(***************************************************************************)
(* Properties of requests in flight together.                              *)
(***************************************************************************)
\* The response a request gets when it is the only one: that of the
\* validation error, of the recovered suggestions, or of the service error.
ResponseOf(r, p) ==
    IF ControllerValidation(r) # NoError THEN errorHandler(ControllerValidation(r))
    ELSE IF ServiceOutcome(r, p).ok THEN ResponseHandlerSuccess(ServiceOutcome(r, p))
    ELSE errorHandler(ServiceOutcome(r, p).err)

\* C25: with several requests in flight and their provider calls resolving in
\* any order, the provider call made for a request carries its own topic and
\* history, the response a client receives is the one its own request and its
\* own provider reply give, no client receives a response before its own
\* request is done, and the provider client of the process stays as it was
\* initialized.
C25_RequestsAreIsolated ==
    /\ openai = OpenAI
    /\ inflight # <<>>
          => \A i \in Clients :
                /\ inflight[i].at = "done"
                      => delivered[i] = ResponseOf(inflight[i].req, inflight[i].prov)
                /\ inflight[i].at # "done" => delivered[i] = NoReply
                /\ (inflight[i].at # "idle" /\ ControllerValidation(inflight[i].req) = NoError)
                      => sent[i] = SuggestionsPrompt(inflight[i].req.a, inflight[i].req.b)
                /\ (inflight[i].at = "idle" \/ ControllerValidation(inflight[i].req) # NoError)
                      => sent[i] = NoPrompt

\* C25 is reached when two requests with different topics arrived one after
\* the other, their provider calls resolved in the opposite order with
\* different replies, and both clients have their responses.
C25_Witness ==
    /\ inflight # <<>>
    /\ entered = <<1, 2>>
    /\ settled = <<2, 1>>
    /\ inflight[1].at = "done"
    /\ inflight[2].at = "done"
    /\ inflight[1].req.a # inflight[2].req.a
    /\ inflight[1].prov = Threw(APIErrorOf(429))
    /\ inflight[2].prov # inflight[1].prov
    /\ ~delivered[1].success
    /\ delivered[2].success
    /\ delivered[2].suggestions = <<<<"b">>, <<"b">>, <<"b">>>>

(***************************************************************************)
(* Properties of routing.                                                  *)
(***************************************************************************)
\* The request is for a route the application registers.
Registered ==
    \/ httpReq.method = "GET" /\ httpReq.path = <<"health">>
    \/ httpReq.method = "GET" /\ httpReq.path = <<"api", "version">>
    \/ httpReq.method = "GET" /\ httpReq.path = <<"api", "practice", "transcribe", "formats">>
    \/ /\ httpReq.method = "POST"
       /\ httpReq.path \in {<<"api", "practice", "transcribe">>,
                            <<"api", "practice", "transcribe", "detailed">>,
                            <<"api", "practice", "generate", "talk-with-topic">>,
                            <<"api", "practice", "generate", "text">>,
                            <<"api", "practice", "translate">>}

AnsweredNotFound ==
    /\ handler = "notFound"
    /\ ErrorEnvelope(httpReply)
    /\ httpReply.code = "NOT_FOUND"
    /\ httpReply.status = NOT_FOUND

C26_OverLimitIsNotNotFound ==
    /\ hpc = "done"
    /\ httpReq = [method |-> "GET", path |-> <<"api", "nonexistent">>,
                  bodyParses |-> TRUE, overLimit |-> TRUE]
    /\ httpReply.status = TOO_MANY_REQUESTS
    /\ httpReply.code = "RATE_LIMIT_EXCEEDED"

(***************************************************************************)
(* Properties of startup and shutdown.                                     *)
(***************************************************************************)
\* C27: the server listens only after the database connection has succeeded;
\* a Redis failure at startup is logged as a warning and does not keep the
\* server from listening; a database failure makes the process exit with
\* code 1 without listening.
C27_StartupSequence ==
    /\ listening => dbConnected
    /\ redisFailed
          => /\ warned = 1
             /\ dbConnected
             /\ ~listening => (boot = "connected" /\ ~exited)
             /\ exitedBy # "startServer"
    /\ dbFailed
          => /\ exited
             /\ exitCode = 1
             /\ exitedBy = "startServer"
             /\ ~listening
             /\ made = 0
    /\ exitedBy = "startServer" => dbFailed

\* C27 is reached when the server listens after the database connected and
\* Redis failed.
C27_Witness ==
    /\ boot = "up"
    /\ listening
    /\ dbConnected
    /\ redisFailed
    /\ warned = 1
    /\ ~exited

\* The database failed and the process has exited with code 1.
C27_DatabaseFailureExits ==
    /\ dbFailed
    /\ exited
    /\ exitCode = 1
    /\ ~listening

\* C30: in every gracefulShutdown the database is disconnected before the
\* Redis client is closed; the process exits with code 0 only after both steps
\* of the shutdown that exits have completed without error, and with code 1
\* when one of its steps threw; with several shutdowns in progress together.
C30_ShutdownOrderAndExitCode ==
    shutdowns # <<>>
        => /\ \A t \in Triggers :
                 /\ shutdowns[t].redisStarted => shutdowns[t].dbDone
                 /\ shutdowns[t].redisStarted => database = "disconnected"
                 /\ shutdowns[t].redisDone => shutdowns[t].redisStarted
                 /\ shutdowns[t].threw => (exited /\ exitedBy = t /\ exitCode = 1)
                 /\ shutdowns[t].at = "done" => (exited /\ exitedBy = t)
           /\ (exited /\ exitedBy \in Triggers)
                 => /\ exitCode \in {0, 1}
                    /\ exitCode = 0
                          => /\ shutdowns[exitedBy].dbDone
                             /\ shutdowns[exitedBy].redisDone
                             /\ ~shutdowns[exitedBy].threw
                    /\ exitCode = 1 => shutdowns[exitedBy].threw

\* C30 is reached when SIGINT arrived while the shutdown of SIGTERM was
\* closing Redis, and the shutdown of SIGINT has exited with code 0 after its
\* own two steps.
C30_Witness ==
    /\ shutdowns # <<>>
    /\ exited
    /\ exitedBy = "SIGINT"
    /\ exitCode = 0
    /\ shutdowns["SIGINT"].dbDone
    /\ shutdowns["SIGINT"].redisDone
    /\ shutdowns["SIGTERM"].at = "quitting"
    /\ shutdowns["uncaughtException"].at = "disconnecting"

\* A shutdown has exited with code 0 with no Redis client to close.
C30_NothingToClose ==
    /\ shutdowns # <<>>
    /\ exited
    /\ exitedBy = "SIGTERM"
    /\ exitCode = 0
    /\ made = 0
    /\ shutdowns["SIGTERM"].dbDone
    /\ shutdowns["SIGTERM"].redisDone

\* A shutdown has exited with code 1 after quit() threw while another was in
\* progress.
C30_ExitOneReached ==
    /\ shutdowns # <<>>
    /\ exited
    /\ exitedBy = "unhandledRejection"
    /\ exitCode = 1
    /\ shutdowns["unhandledRejection"].dbDone
    /\ shutdowns["unhandledRejection"].threw
    /\ shutdowns["SIGTERM"].at = "disconnecting"

(***************************************************************************)
(* Properties of the order of truncation and filtering.                    *)
(***************************************************************************)
\* The array has more than three elements and one of its first three is a
\* string that is empty after trimming.
BlankAmongFirstThree(arr) ==
    /\ Len(arr) > 3
    /\ \E i \in 1..3 : arr[i].t = "string" /\ IsBlank(arr[i].s)

\* The non-empty trimmed elements of the whole array.
NonEmptyElements(arr) == FilterSeq(MapSeq(arr, TrimmedTextOf), NonEmptyText)

\* What the line-based fallback alone makes of a text.
FallbackOutcome(text) ==
    IF Len(FallbackLines(text)) >= 3 THEN Success(EmptyText, Take(FallbackLines(text), 3))
    ELSE Failure(RecoveryFailure)

\* C28: when the suggestions array has more than three elements and one of
\* its first three is empty after trimming, the strict tier fails and the
\* outcome is that of the line-based fallback, also when the later elements
\* would make up three non-empty suggestions: the first three elements are
\* taken before the empty ones are dropped.
C28_TruncationBeforeFiltering ==
    (rpc = "done" /\ recipe.kind = "suggestions" /\ BlankAmongFirstThree(recipe.arr))
        => /\ ~StrictTier(generateText(modelReply).text).ok
           /\ recovered = FallbackOutcome(generateText(modelReply).text)
           /\ Len(NonEmptyElements(recipe.arr)) >= 3
                 => recovered # Success(EmptyText, Take(NonEmptyElements(recipe.arr), 3))
           /\ recipe.wrap = NoWrapping
                 => /\ ~recovered.ok
                    /\ recovered.err.code = "INTERNAL_SERVER_ERROR"

\* C28 is reached when the object with the array ["a", " ", "a", "a"] has been
\* refused although three of its elements are not empty.
C28_Witness ==
    /\ rpc = "done"
    /\ recipe.kind = "suggestions"
    /\ recipe.wrap = NoWrapping
    /\ recipe.arr = <<JStr(<<"a">>), JStr(<<" ">>), JStr(<<"a">>), JStr(<<"a">>)>>
    /\ NonEmptyElements(recipe.arr) = <<<<"a">>, <<"a">>, <<"a">>>>
    /\ ~recovered.ok
    /\ recovered.err.code = "INTERNAL_SERVER_ERROR"

(***************************************************************************)
(* Properties of the redis module.                                         *)
(***************************************************************************)
\* C29: the module holds at most one client, one of those constructed;
\* createRedisClient returns the client held when there is one and constructs
\* a new one otherwise, also right after a close has completed;
\* getRedisClient returns null exactly when no client has been constructed
\* since the last close that completed; closeRedisClient with no client held
\* does nothing.
C29_AtMostOneClientHeld ==
    /\ redisClient \in {NoRedis} \cup {RedisClient(n) : n \in 1..made}
    /\ (redisClient = NoRedis) <=> ~sinceClose
    /\ lastCall.fn = "createRedisClient"
          => /\ redisClient = lastCall.returned
             /\ lastCall.returned # NoRedis
             /\ lastCall.held # NoRedis
                   => (lastCall.returned = lastCall.held /\ made = lastCall.constructed)
             /\ lastCall.held = NoRedis
                   => /\ made = lastCall.constructed + 1
                      /\ lastCall.returned = RedisClient(made)
                      /\ \A n \in 1..lastCall.constructed :
                            lastCall.returned # RedisClient(n)
    /\ lastCall.fn = "getRedisClient"
          => /\ lastCall.returned = redisClient
             /\ (lastCall.returned = NoRedis) <=> ~lastCall.since
    /\ (lastCall.fn = "closeRedisClient" /\ lastCall.held = NoRedis)
          => /\ ~lastCall.quit
             /\ redisClient = NoRedis
             /\ made = lastCall.constructed
    /\ lastCall.fn = "closed" => redisClient = NoRedis

\* C29 is reached when the second client constructed is held: the first was
\* closed and createRedisClient was called again.
C29_Witness ==
    /\ lastCall.fn = "createRedisClient"
    /\ lastCall.held = NoRedis
    /\ lastCall.constructed = 1
    /\ made = 2
    /\ redisClient = RedisClient(2)
    /\ sinceClose

\* closeRedisClient has been called with no client held, and getRedisClient
\* has returned null after a close.
C29_CloseWithNothingHeld ==
    /\ lastCall.fn = "closeRedisClient"
    /\ lastCall.held = NoRedis
    /\ made = 1

C29_GetReturnsNullAfterClose ==
    /\ lastCall.fn = "getRedisClient"
    /\ lastCall.returned = NoRedis
    /\ made = 1

====
